---------------------------- MODULE Spec2Model ----------------------------
(***************************************************************************)
(* Fuzzy deduplication pipeline of data-prep-kit                           *)
(* (transforms/universal/fdedup/src/fdedup_implementation.py).             *)
(*                                                                         *)
(* The coordinator FdedupRuntime.set_environment, the table transforms     *)
(* FdedupPreprocessor and FdedupFilter are translated from the source.     *)
(* The actors imported from fdedup_support (BucketsHash, DocsMinHash,      *)
(* DocCollector, BucketsHashProcessor, BucketsHashProcessorInvoker,        *)
(* MurmurMH, find, fuzzy_optimal_param, REQUEST_LEN) and the RayUtils /    *)
(* TransformTableProcessor helpers of data_processing are not part of the  *)
(* source tree at hand and are modelled from the specification.            *)
(*                                                                         *)
(* A text is a sequence of one-character strings; a table is a sequence of *)
(* rows [id, contents]; a Ray actor is an inbox (FIFO of calls) plus its   *)
(* private state, and a remote call is a message whose reply decrements    *)
(* the caller's count of outstanding replies.                              *)
(***************************************************************************)
EXTENDS Integers, Sequences, FiniteSets, TLC

(***************************************************************************)
(* Configuration (FdedupRuntime.params), scaled down.                      *)
(***************************************************************************)
b_actors == 2
m_actors == 3
d_actors == 2
n_preprocessors == 2
num_permutations == 2
word_shingle_size == 2
\* threshold * num_permutations, with threshold = 0.5
threshold == 1
\* doc_cpu = 0.5 = DocCpuNum / DocCpuDen; worker_options["num_cpus"] = 1
DocCpuNum == 1
DocCpuDen == 2
WorkerCpus == 1
delimiter == " "

\* fuzzy_optimal_param(threshold = 0.5, num_perm = 2): the three feasible
\* pairs (1,1), (2,1), (1,2) tie at cost 0.125; ties break toward larger B.
num_bands == 2
length_band == 1

\* fdedup_support.REQUEST_LEN (8192 in production), scaled down.
REQUEST_LEN == 3

n_readers == n_preprocessors + ((d_actors * DocCpuNum) \div (DocCpuDen * WorkerCpus))

(***************************************************************************)
(* Generic helpers.                                                        *)
(***************************************************************************)
Range(s) == {s[i] : i \in DOMAIN s}

MinOf(S) == CHOOSE x \in S : \A y \in S : x <= y

\* Python slice s[lo:hi] of a sequence, 0-based and half-open, for lo, hi >= 0;
\* bounds beyond the end are clipped to it.
PySlice(s, lo, hi) ==
    LET first == IF lo < Len(s) THEN lo ELSE Len(s)
        last == IF hi < Len(s) THEN hi ELSE Len(s)
    IN IF first >= last THEN <<>> ELSE SubSeq(s, first + 1, last)

\* The elements of a finite set of integers in ascending order.
RECURSIVE SortedSeq(_)
SortedSeq(S) ==
    IF S = {} THEN <<>>
    ELSE LET x == MinOf(S) IN <<x>> \o SortedSeq(S \ {x})

(***************************************************************************)
(* Shingler, MinHasher, LSH banding (FdedupPreprocessor helpers).          *)
(***************************************************************************)
CharCode(c) ==
    CASE c = " " -> 0
      [] c = "a" -> 1
      [] c = "b" -> 2
      [] c = "c" -> 3

\* fdedup_support.find: the 0-based positions of the delimiter in the text.
RECURSIVE find_from(_, _, _)
find_from(text, d, i) ==
    IF i > Len(text) THEN <<>>
    ELSE (IF text[i] = d THEN <<i - 1>> ELSE <<>>) \o find_from(text, d, i + 1)

find(text, d) == find_from(text, d, 1)

\* TransformUtils.normalize_string: case and whitespace are normalised before
\* shingling (letters to lower case, a run of blanks to one blank).
Lower(c) ==
    CASE c = "A" -> "a"
      [] c = "B" -> "b"
      [] c = "C" -> "c"
      [] OTHER -> c

\* runs of the blank are reduced to one blank
RECURSIVE squeeze(_)
squeeze(doc) ==
    IF Len(doc) < 2 THEN doc
    ELSE IF doc[1] = " " /\ doc[2] = " " THEN squeeze(Tail(doc))
    ELSE <<doc[1]>> \o squeeze(Tail(doc))

normalize_string(doc) == squeeze([n \in 1..Len(doc) |-> Lower(doc[n])])

\* variant: the last window is left out
word_shingles_short(text, d, w) ==
    LET separators == find(text, d) IN
    IF Len(separators) + 1 <= w
    THEN <<text>>
    ELSE LET bounds == <<-1>> \o separators \o <<Len(text)>> IN
         [i \in 1..(Len(bounds) - w - 1) |-> PySlice(text, bounds[i] + 1, bounds[i + w])]

\* _generate_word_shingles, generic path, for delimiter d and shingle size w
word_shingles(text, d, w) ==
    LET separators == find(text, d) IN
    IF Len(separators) + 1 <= w
    THEN <<text>>
    ELSE LET bounds == <<-1>> \o separators \o <<Len(text)>> IN
         [i \in 1..(Len(bounds) - w) |-> PySlice(text, bounds[i] + 1, bounds[i + w])]

\* text_normalizer.normalize, on the letters of the model
text_normalize(text) == [n \in 1..Len(text) |-> Lower(text[n])]

\* sentencepiece encode_as_pieces: one piece per character that is not a blank
encode_as_pieces(text) ==
    LET keep == SelectSeq(text, LAMBDA ch : ch # " ")
    IN [n \in 1..Len(keep) |-> <<keep[n]>>]

\* str.join
RECURSIVE Join(_, _)
Join(words, d) ==
    IF words = <<>> THEN <<>>
    ELSE IF Len(words) = 1 THEN words[1]
    ELSE words[1] \o <<d>> \o Join(Tail(words), d)

\* _generate_word_shingles, tokenizer path without an exception
japanese_shingles(text, d, w) ==
    LET words == encode_as_pieces(text_normalize(text))
        word_count == Len(words)
        last == IF word_count - w + 1 > 1 THEN word_count - w + 1 ELSE 1
    IN [i \in 1..last |->
          Join(SubSeq(words, i, IF i + w - 1 < word_count THEN i + w - 1 ELSE word_count), d)]

\* _generate_word_shingles of a worker whose flag is is_japanese; raises says
\* whether the tokenizer throws.  The result and the flag the worker is left with.
shingle_call(is_japanese, text, d, w, raises) ==
    IF is_japanese
    THEN IF raises
         THEN [shingles |-> <<>>, is_japanese |-> FALSE, path |-> "tokenizer"]
         ELSE [shingles |-> japanese_shingles(text, d, w), is_japanese |-> TRUE,
               path |-> "tokenizer"]
    ELSE [shingles |-> word_shingles(text, d, w), is_japanese |-> FALSE, path |-> "generic"]

\* the generic path with the configuration of the run
generate_word_shingles(text) == word_shingles(text, delimiter, word_shingle_size)

\* murmur64 of a token, as a small polynomial hash.
RECURSIVE murmur64(_)
murmur64(s) ==
    IF s = <<>> THEN 0
    ELSE (murmur64(SubSeq(s, 1, Len(s) - 1)) * 4 + CharCode(s[Len(s)]) + 1) % 61

\* MurmurMH.minhash: sig[i] = min over tokens of (a_i * murmur64(t) + b_i) mod m
\* with (a, b) fixed by RANDOM_SEED.
minhash(shingles) ==
    LET a == <<1, 2>>
        b == <<0, 4>>
        m == 11
    IN [i \in 1..num_permutations |->
          MinOf({(a[i] * murmur64(shingles[k]) + b[i]) % m : k \in DOMAIN shingles})]

\* _generate_minhashes (the assertion is on the band parameters)
generate_minhashes(shingles) == minhash(shingles)

\* mmh3.hash64 of a slice of minhashes, as a small polynomial hash.
RECURSIVE hash64(_)
hash64(slice) ==
    IF slice = <<>> THEN 0
    ELSE (hash64(SubSeq(slice, 1, Len(slice) - 1)) * 11 + slice[Len(slice)] + 1) % 16

\* variant: one band more than num_bands
generate_buckets_extra(min_hashes) ==
    [i \in 1..(num_bands + 1) |->
        hash64(PySlice(min_hashes, (i - 1) * length_band, i * length_band))]

\* _generate_buckets
generate_buckets(min_hashes) ==
    [i \in 1..num_bands |->
        hash64(PySlice(min_hashes, (i - 1) * length_band, i * length_band))]

(***************************************************************************)
(* Corpora: each is a sequence of input tables, a table a sequence of rows.*)
(* With the hashes above: "a b" has signature (6,5) and band keys 7, 6;    *)
(* "a b c" has (1,5) and 2, 6; "a" has (2,8) and 3, 9; "b" has (3,10) and  *)
(* 4, 11; "c" has (4,1) and 5, 2; the empty text has (0,4) and 1, 5.       *)
(***************************************************************************)
Row(i, c) == [id |-> i, contents |-> c]

Tab == <<"a", " ", "b">>

Tabc == <<"a", " ", "b", " ", "c">>
Taba == <<"a", " ", "b", " ", "a">>

Ta == <<"a">>

Tb == <<"b">>

Tc == <<"c">>

TC == <<"C">>

Tempty == <<>>

\* two identical documents in two tables
IdenticalPair == << <<Row(1, Tab)>>, <<Row(2, Tab)>> >>

\* an identical pair and a longer near-duplicate with a larger id
PairAndLonger == << <<Row(1, Tab), Row(2, Tab)>>, <<Row(3, Tabc)>> >>

\* no two documents share a band at the same index
AllUnique == << <<Row(1, Ta), Row(2, Tb)>>, <<Row(3, Tc)>> >>

\* two documents with empty contents
TwoEmpty == << <<Row(1, Tempty), Row(2, Tempty)>>, <<Row(3, Tb)>> >>

\* "c" shares key 2 with "a b c" across band indices: a false candidate
FalseCandidate == << <<Row(1, Tabc), Row(2, TC)>>, <<Row(3, Tb)>> >>

\* one table of three documents: the buffers are flushed before its last row
OneTable == << <<Row(1, Ta), Row(2, Tb), Row(3, Tc)>> >>

\* document 1 shares one bucket with document 2 and another with document 3,
\* while documents 2 and 3 share no bucket and no signature position
Transitive == << <<Row(1, Tab), Row(2, Taba)>>, <<Row(3, Tabc)>> >>

\* no input table at all
NoTables == <<>>

Corpora == {IdenticalPair, PairAndLonger, AllUnique, TwoEmpty, FalseCandidate, OneTable,
            Transitive, NoTables}

(***************************************************************************)
(* Actors and messages.                                                    *)
(***************************************************************************)
BucketShards == 0..(b_actors - 1)

MinHashShards == 0..(m_actors - 1)

DocShards == 0..(d_actors - 1)

Readers == 1..n_readers

Processors == 1..n_preprocessors

\* the table workers of the filter stage (num_preprocessors of the launcher)
FilterWorkers == 1..n_preprocessors

BucketActor(i) == <<"bucket", i>>

MinHashActor(i) == <<"minhash", i>>

DocActor(i) == <<"doc", i>>

ReaderActor(w) == <<"reader", w>>

ProcessorActor(p) == <<"processor", p>>

FilterActor(w) == <<"filter", w>>

InvokerActor == <<"invoker", 0>>

Coordinator == <<"coordinator", 0>>

BucketActors == {BucketActor(i) : i \in BucketShards}

MinHashActors == {MinHashActor(i) : i \in MinHashShards}

DocActors == {DocActor(i) : i \in DocShards}

ReaderActors == {ReaderActor(w) : w \in Readers}

ProcessorActors == {ProcessorActor(p) : p \in Processors}

FilterActors == {FilterActor(w) : w \in FilterWorkers}

Collectors == BucketActors \cup MinHashActors \cup DocActors

Callers == {Coordinator} \cup ReaderActors \cup ProcessorActors \cup FilterActors

Msg(op, from, arg) == [op |-> op, from |-> from, arg |-> arg]

\* inbox after the calls in the sequence `calls` ([to, msg]) have been issued
RECURSIVE Deliver(_, _)
Deliver(inb, calls) ==
    IF calls = <<>> THEN inb
    ELSE Deliver([inb EXCEPT ![calls[1].to] = Append(@, calls[1].msg)], Tail(calls))

\* f with key k set to v (f a function used as a dictionary)
Put(f, k, v) == [x \in (DOMAIN f) \cup {k} |-> IF x = k THEN v ELSE f[x]]

\* f without key k
Drop(f, k) == [x \in (DOMAIN f) \ {k} |-> f[x]]

EmptyDict == [x \in {} |-> 0]

\* dict.get(key, default)
Get(params, key, default) == IF key \in DOMAIN params THEN params[key] ELSE default

VARIABLES
    files,        \* the input tables
    pc,           \* position of the coordinator
    alive,        \* actors that exist and have not been killed
    created,      \* actors ever created
    inbox,        \* collector -> FIFO of calls not yet executed
    pending,      \* caller -> number of replies it still waits for
    replies,      \* caller -> replies received, in arrival order
    todo,         \* files not yet handed to a table worker in this phase
    reader,       \* FdedupPreprocessor workers
    prestats,     \* file -> statistics returned by FdedupPreprocessor.transform
    bucketsHash,  \* bucket shard -> (band key -> set of doc ids)
    docsMinHash,  \* minhash shard -> (doc id -> [len, mh])
    bproc,        \* bucket shard -> progress of process_buckets
    invQ,         \* requests submitted to the invoker, not yet taken by a processor
    proc,         \* BucketsHashProcessor workers
    docs,         \* doc shard -> [ids: doc id -> cluster id, removed: set of doc ids]
    sums,         \* the sums of the runtime and of compute_execution_stats
    sized,        \* collectors whose get_size reply the coordinator has read
    fworker,      \* FdedupFilter workers
    out,          \* file -> result of FdedupFilter.transform
    metadata,     \* what compute_execution_stats returned
    shingler,     \* one FdedupPreprocessor seen through _generate_word_shingles
    launch,       \* configuration and start of the run
    sent,         \* doc shard -> decisions sent to it so far, in order
    blocklist     \* one BlockListTransform: its trie, its table and what it returned

pre_vars == <<todo, reader, prestats>>

store_vars == <<bucketsHash, docsMinHash>>

resolve_vars == <<bproc, invQ, proc, docs>>

filter_vars == <<fworker, out, metadata>>

unit_vars == <<shingler, launch, sent, blocklist>>

vars == <<files, pc, alive, created, inbox, pending, replies, todo, reader,
          prestats, bucketsHash, docsMinHash, bproc, invQ, proc, docs, sums,
          sized, fworker, out, metadata, shingler, launch, sent, blocklist>>

IdleBucket == [submitter |-> FALSE, st |-> "idle", submitted |-> {}]

\* the sums before any size is read
NoSums == [buckets |-> 0, buckets_mem |-> 0, mh |-> 0, mh_mem |-> 0,
           docs |-> 0, docs_mem |-> 0, removed |-> 0, removed_mem |-> 0]

\* compute_execution_stats has not returned
NoMetadata == [returned |-> FALSE, raised |-> FALSE]

IdleProcessor == [st |-> "idle", batch |-> <<>>, i |-> 0, rm |-> <<>>]

IdleFilter == [st |-> "idle", file |-> 0]

NoCall == [text |-> <<>>, path |-> "none", raised |-> FALSE, shingles |-> <<>>]

IdleShingler == [configured |-> FALSE, is_japanese |-> FALSE, d |-> delimiter,
                 w |-> word_shingle_size, n |-> 0, last |-> NoCall]

NothingSent == [i \in DocShards |-> <<>>]

NoParams == [k \in {} |-> 0]

NoWorker == [delimiter |-> " ", word_shingle_size |-> 1]

\* no BlockListTransform exists
IdleBlockList == [st |-> "off", domain_list |-> {}, trie |-> {}, table |-> <<>>,
                  tables |-> <<>>, metadata |-> EmptyDict]

IdleLaunch == [lpc |-> "off", args |-> NoParams, params |-> NoParams,
               buckets |-> 0, minhashes |-> 0, workers |-> 0,
               worker |-> NoWorker, error |-> "none"]

\* a worker between two tables; is_japanese is the worker's flag, empty the
\* doc ids of the current table whose shingle list was empty
IdleReader == [st |-> "idle", file |-> 0, n |-> 0, buckets |-> <<>>, minhashes |-> <<>>,
               num_buckets |-> 0, num_minhashes |-> 0, is_japanese |-> FALSE, empty |-> {}]

Init ==
    /\ files \in Corpora
    /\ pc = "start"
    /\ alive = {}
    /\ created = {}
    /\ inbox = [a \in Collectors |-> <<>>]
    /\ pending = [c \in Callers |-> 0]
    /\ replies = [c \in Callers |-> <<>>]
    /\ todo = <<>>
    /\ reader = [w \in Readers |-> IdleReader]
    /\ prestats = EmptyDict
    /\ bucketsHash = [i \in BucketShards |-> EmptyDict]
    /\ docsMinHash = [i \in MinHashShards |-> EmptyDict]
    /\ bproc = [i \in BucketShards |-> IdleBucket]
    /\ invQ = <<>>
    /\ proc = [p \in Processors |-> IdleProcessor]
    /\ docs = [i \in DocShards |-> [ids |-> EmptyDict, removed |-> {}]]
    /\ sums = NoSums
    /\ sized = {}
    /\ fworker = [w \in FilterWorkers |-> IdleFilter]
    /\ out = EmptyDict
    /\ metadata = NoMetadata
    /\ shingler = IdleShingler
    /\ launch = IdleLaunch
    /\ sent = NothingSent
    /\ blocklist = IdleBlockList

(***************************************************************************)
(* FdedupPreprocessor.                                                     *)
(***************************************************************************)
\* the local dictionary `buckets` (insertion ordered, a sequence of
\* [key, ids]) after the loop over the candidates of one document
\* variant: a band key seen again keeps only the last doc id
RECURSIVE add_candidates_overwrite(_, _, _)
add_candidates_overwrite(buckets, candidates, doc_id) ==
    IF candidates = <<>> THEN buckets
    ELSE LET b_hash == Head(candidates)
             hit == {j \in DOMAIN buckets : buckets[j].key = b_hash}
             next == IF hit = {}
                     THEN Append(buckets, [key |-> b_hash, ids |-> <<doc_id>>])
                     ELSE [buckets EXCEPT ![MinOf(hit)].ids = <<doc_id>>]
         IN add_candidates_overwrite(next, Tail(candidates), doc_id)

RECURSIVE add_candidates(_, _, _)
add_candidates(buckets, candidates, doc_id) ==
    IF candidates = <<>> THEN buckets
    ELSE LET b_hash == Head(candidates)
             hit == {j \in DOMAIN buckets : buckets[j].key = b_hash}
             next == IF hit = {}
                     THEN Append(buckets, [key |-> b_hash, ids |-> <<doc_id>>])
                     ELSE [buckets EXCEPT ![MinOf(hit)].ids = Append(@, doc_id)]
         IN add_candidates(next, Tail(candidates), doc_id)

\* variant: the bucket request is partitioned by the first doc id of the
\* bucket instead of by the band key
bucket_requests_by_doc(buckets) ==
    [i \in BucketShards |-> SelectSeq(buckets, LAMBDA e : e.ids[1] % b_actors = i)]

\* _submit_buckets_minhashes: the remote calls, in the order they are issued
bucket_requests(buckets) ==
    [i \in BucketShards |-> SelectSeq(buckets, LAMBDA e : e.key % b_actors = i)]

minhash_requests(minhashes) ==
    [i \in MinHashShards |-> SelectSeq(minhashes, LAMBDA e : e[1] % m_actors = i)]

RECURSIVE calls_of(_, _, _, _, _)
calls_of(request, i, n, op, from) ==
    IF i >= n THEN <<>>
    ELSE (IF Len(request[i]) > 0
          THEN << [to |-> <<(IF op = "add_buckets" THEN "bucket" ELSE "minhash"), i>>,
                   msg |-> Msg(op, from, request[i])] >>
          ELSE <<>>) \o calls_of(request, i + 1, n, op, from)

\* variant: the minhash requests are never sent
submit_buckets_only(from, buckets, minhashes) ==
    calls_of(bucket_requests(buckets), 0, b_actors, "add_buckets", from)

submit_buckets_minhashes(from, buckets, minhashes) ==
    calls_of(bucket_requests(buckets), 0, b_actors, "add_buckets", from)
    \o calls_of(minhash_requests(minhashes), 0, m_actors, "add_minhashes", from)

\* the names of the two required columns
doc_column == "contents"

doc_id_column == "id"

\* every required column is a column of the table
validate_columns(table, required) == \A n \in DOMAIN table : required \subseteq DOMAIN table[n]

\* ActorPool hands the next file to a free worker (RayUtils.process_files);
\* a table that lacks a required column is answered at once with no table
\* and empty statistics
PreStart(w) ==
    /\ pc = "preprocess"
    /\ ReaderActor(w) \in alive
    /\ reader[w].st = "idle"
    /\ todo # <<>>
    /\ IF validate_columns(files[Head(todo)], {doc_column, doc_id_column})
       THEN /\ reader' = [reader EXCEPT ![w] =
                              [IdleReader EXCEPT !.st = "run", !.file = Head(todo),
                                                 !.is_japanese = reader[w].is_japanese]]
            /\ UNCHANGED prestats
       ELSE /\ prestats' = Put(prestats, Head(todo), EmptyDict)
            /\ UNCHANGED reader
    /\ todo' = Tail(todo)
    /\ UNCHANGED <<unit_vars, files, pc, alive, created, inbox, pending, replies,
                   store_vars, resolve_vars, sums, sized, filter_vars>>

\* one iteration of the loop over the rows, up to the wait inside flush
PreRow(w) ==
    LET r == reader[w]
        table == files[r.file]
    IN
    /\ ReaderActor(w) \in alive
    /\ r.st = "run"
    /\ r.n < Len(table)
    /\ \E raises \in (IF r.is_japanese THEN BOOLEAN ELSE {FALSE}) :
       LET doc == table[r.n + 1].contents
           doc_id == table[r.n + 1].id
           call == shingle_call(r.is_japanese, normalize_string(doc), delimiter,
                                word_shingle_size, raises)
           shingles == call.shingles
           mh == generate_minhashes(shingles)
           minhashes == Append(r.minhashes, <<doc_id, Len(doc), mh>>)
           buckets == add_candidates(r.buckets, generate_buckets(mh), doc_id)
       IN
       IF Len(shingles) > 0
       THEN IF Len(buckets) >= REQUEST_LEN
            THEN LET calls == submit_buckets_minhashes(ReaderActor(w), buckets, minhashes) IN
                 /\ inbox' = Deliver(inbox, calls)
                 /\ pending' = [pending EXCEPT ![ReaderActor(w)] = Len(calls)]
                 /\ reader' = [reader EXCEPT ![w] =
                        [r EXCEPT !.st = "flush", !.n = r.n + 1,
                                  !.buckets = buckets, !.minhashes = minhashes,
                                  !.is_japanese = call.is_japanese]]
            ELSE /\ reader' = [reader EXCEPT ![w] =
                        [r EXCEPT !.n = r.n + 1, !.buckets = buckets, !.minhashes = minhashes,
                                  !.is_japanese = call.is_japanese]]
                 /\ UNCHANGED <<inbox, pending>>
       ELSE /\ reader' = [reader EXCEPT ![w] =
                   [r EXCEPT !.n = r.n + 1, !.is_japanese = call.is_japanese,
                             !.empty = @ \cup {doc_id}]]
            /\ UNCHANGED <<inbox, pending>>
    /\ UNCHANGED <<unit_vars, files, pc, alive, created, replies, todo, prestats,
                   store_vars, resolve_vars, sums, sized, filter_vars>>

\* flush(0) after the last row
\* variant: the table ends without the last flush
PreEnd_unflushed(w) ==
    LET r == reader[w] IN
    /\ ReaderActor(w) \in alive
    /\ r.st = "run"
    /\ r.n = Len(files[r.file])
    /\ reader' = [reader EXCEPT ![w].st = "final"]
    /\ UNCHANGED <<unit_vars, files, pc, alive, created, inbox, pending, replies, todo, prestats,
                   store_vars, resolve_vars, sums, sized, filter_vars>>

PreEnd(w) ==
    LET r == reader[w]
        calls == submit_buckets_minhashes(ReaderActor(w), r.buckets, r.minhashes)
    IN
    /\ ReaderActor(w) \in alive
    /\ r.st = "run"
    /\ r.n = Len(files[r.file])
    /\ inbox' = Deliver(inbox, calls)
    /\ pending' = [pending EXCEPT ![ReaderActor(w)] = Len(calls)]
    /\ reader' = [reader EXCEPT ![w].st = "final"]
    /\ UNCHANGED <<unit_vars, files, pc, alive, created, replies, todo, prestats,
                   store_vars, resolve_vars, sums, sized, filter_vars>>

\* variant: flush counts what it submitted and leaves it in the buffers
PreFlushed_uncleared(w) ==
    LET r == reader[w]
        counted == [r EXCEPT !.num_buckets = r.num_buckets + Len(r.buckets),
                             !.num_minhashes = r.num_minhashes + Len(r.minhashes)]
    IN
    /\ ReaderActor(w) \in alive
    /\ r.st \in {"flush", "final"}
    /\ pending[ReaderActor(w)] = 0
    /\ IF r.st = "flush"
       THEN /\ reader' = [reader EXCEPT ![w] = [counted EXCEPT !.st = "run"]]
            /\ UNCHANGED prestats
       ELSE /\ reader' = [reader EXCEPT ![w] =
                              [IdleReader EXCEPT !.is_japanese = r.is_japanese,
                                                 !.empty = r.empty]]
            /\ prestats' = Put(prestats, r.file,
                               [generated_buckets |-> counted.num_buckets,
                                generated_minhashes |-> counted.num_minhashes])
    /\ UNCHANGED <<unit_vars, files, pc, alive, created, inbox, pending, replies, todo,
                   store_vars, resolve_vars, sums, sized, filter_vars>>

\* wait_for_execution_completion returned: the rest of flush, and after the
\* last flush the return of transform
PreFlushed(w) ==
    LET r == reader[w]
        counted == [r EXCEPT !.num_buckets = r.num_buckets + Len(r.buckets),
                             !.num_minhashes = r.num_minhashes + Len(r.minhashes),
                             !.buckets = <<>>, !.minhashes = <<>>]
    IN
    /\ ReaderActor(w) \in alive
    /\ r.st \in {"flush", "final"}
    /\ pending[ReaderActor(w)] = 0
    /\ IF r.st = "flush"
       THEN /\ reader' = [reader EXCEPT ![w] = [counted EXCEPT !.st = "run"]]
            /\ UNCHANGED prestats
       ELSE /\ reader' = [reader EXCEPT ![w] =
                              [IdleReader EXCEPT !.is_japanese = r.is_japanese,
                                                 !.empty = r.empty]]
            /\ prestats' = Put(prestats, r.file,
                               [generated_buckets |-> counted.num_buckets,
                                generated_minhashes |-> counted.num_minhashes])
    /\ UNCHANGED <<unit_vars, files, pc, alive, created, inbox, pending, replies, todo,
                   store_vars, resolve_vars, sums, sized, filter_vars>>

(***************************************************************************)
(* BucketsHash and DocsMinHash collectors (one call at a time, FIFO).      *)
(***************************************************************************)
Ready(a, op) ==
    /\ a \in alive
    /\ a \in BucketActors => bproc[a[2]].st # "processing"
    /\ inbox[a] # <<>>
    /\ Head(inbox[a]).op = op

RECURSIVE add_buckets(_, _)
add_buckets(store, batch) ==
    IF batch = <<>> THEN store
    ELSE LET e == Head(batch)
             old == IF e.key \in DOMAIN store THEN store[e.key] ELSE {}
         IN add_buckets(Put(store, e.key, old \cup Range(e.ids)), Tail(batch))

RECURSIVE add_minhashes(_, _)
add_minhashes(store, batch) ==
    IF batch = <<>> THEN store
    ELSE LET e == Head(batch)
         IN add_minhashes(Put(store, e[1], [len |-> e[2], mh |-> e[3]]), Tail(batch))

BucketAddBuckets(i) ==
    LET a == BucketActor(i) IN
    /\ Ready(a, "add_buckets")
    /\ bucketsHash' = [bucketsHash EXCEPT ![i] = add_buckets(@, Head(inbox[a]).arg)]
    /\ inbox' = [inbox EXCEPT ![a] = Tail(@)]
    /\ pending' = [pending EXCEPT ![Head(inbox[a]).from] = @ - 1]
    /\ UNCHANGED <<unit_vars, files, pc, alive, created, replies, pre_vars, docsMinHash,
                   resolve_vars, sums, sized, filter_vars>>

MinHashAddMinhashes(i) ==
    LET a == MinHashActor(i) IN
    /\ Ready(a, "add_minhashes")
    /\ docsMinHash' = [docsMinHash EXCEPT ![i] = add_minhashes(@, Head(inbox[a]).arg)]
    /\ inbox' = [inbox EXCEPT ![a] = Tail(@)]
    /\ pending' = [pending EXCEPT ![Head(inbox[a]).from] = @ - 1]
    /\ UNCHANGED <<unit_vars, files, pc, alive, created, replies, pre_vars, bucketsHash,
                   resolve_vars, sums, sized, filter_vars>>

(***************************************************************************)
(* BucketsHash: register_processor, process_buckets, get_size.             *)
(***************************************************************************)
\* the invoker admits at most K = 2 * pool size requests at a time
Outstanding == Len(invQ) + Cardinality({p \in Processors : proc[p].st # "idle"})

InvokerWindow == 2 * n_preprocessors

\* band keys of shard i that hold at least two doc ids and are not yet submitted
LongKeys(i) ==
    {k \in DOMAIN bucketsHash[i] : Cardinality(bucketsHash[i][k]) >= 2} \ bproc[i].submitted

BucketAddSubmitter(i) ==
    LET a == BucketActor(i) IN
    /\ Ready(a, "add_processing_submitter")
    /\ bproc' = [bproc EXCEPT ![i].submitter = TRUE]
    /\ inbox' = [inbox EXCEPT ![a] = Tail(@)]
    /\ pending' = [pending EXCEPT ![Head(inbox[a]).from] = @ - 1]
    /\ UNCHANGED <<unit_vars, files, pc, alive, created, replies, pre_vars, store_vars,
                   invQ, proc, docs, sums, sized, filter_vars>>

\* process_buckets starts: the call stays at the head of the inbox while it runs
BucketProcessStart(i) ==
    LET a == BucketActor(i) IN
    /\ Ready(a, "process_buckets")
    /\ bproc[i].submitter
    /\ bproc' = [bproc EXCEPT ![i].st = "processing"]
    /\ UNCHANGED <<unit_vars, files, pc, alive, created, inbox, pending, replies, pre_vars,
                   store_vars, invQ, proc, docs, sums, sized, filter_vars>>

\* one request of up to REQUEST_LEN buckets goes to the invoker
BucketSubmit(i) ==
    LET keys == SortedSeq(LongKeys(i))
        n == IF Len(keys) < REQUEST_LEN THEN Len(keys) ELSE REQUEST_LEN
        request == [j \in 1..n |-> [key |-> keys[j], ids |-> SortedSeq(bucketsHash[i][keys[j]])]]
    IN
    /\ BucketActor(i) \in alive
    /\ bproc[i].st = "processing"
    /\ keys # <<>>
    /\ Outstanding < InvokerWindow
    /\ invQ' = Append(invQ, request)
    /\ bproc' = [bproc EXCEPT ![i].submitted = @ \cup {keys[j] : j \in 1..n}]
    /\ UNCHANGED <<unit_vars, files, pc, alive, created, inbox, pending, replies, pre_vars,
                   store_vars, proc, docs, sums, sized, filter_vars>>

\* process_buckets returns
BucketProcessDone(i) ==
    LET a == BucketActor(i) IN
    /\ a \in alive
    /\ bproc[i].st = "processing"
    /\ LongKeys(i) = {}
    /\ bproc' = [bproc EXCEPT ![i].st = "done"]
    /\ inbox' = [inbox EXCEPT ![a] = Tail(@)]
    /\ pending' = [pending EXCEPT ![Head(inbox[a]).from] = @ - 1]
    /\ UNCHANGED <<unit_vars, files, pc, alive, created, replies, pre_vars, store_vars,
                   invQ, proc, docs, sums, sized, filter_vars>>

RECURSIVE SumOver(_, _)
SumOver(f, S) ==
    IF S = {} THEN 0
    ELSE LET x == CHOOSE y \in S : TRUE IN f[x] + SumOver(f, S \ {x})

bucket_size(store) ==
    [amount |-> Cardinality(DOMAIN store),
     memory |-> SumOver([k \in DOMAIN store |-> 1 + Cardinality(store[k])], DOMAIN store)]

BucketGetSize(i) ==
    LET a == BucketActor(i) IN
    /\ Ready(a, "get_size")
    /\ inbox' = [inbox EXCEPT ![a] = Tail(@)]
    /\ pending' = [pending EXCEPT ![Head(inbox[a]).from] = @ - 1]
    /\ replies' = [replies EXCEPT ![Head(inbox[a]).from] =
                      Append(@, [who |-> a, size |-> bucket_size(bucketsHash[i])])]
    /\ UNCHANGED <<unit_vars, files, pc, alive, created, pre_vars, store_vars, resolve_vars,
                   sums, sized, filter_vars>>

(***************************************************************************)
(* DocsMinHash: get_minhashes, get_size.                                   *)
(***************************************************************************)
\* the entries of the requested ids, in request order
get_minhashes(store, ids) ==
    LET known == SelectSeq(ids, LAMBDA d : d \in DOMAIN store)
    IN [j \in 1..Len(known) |->
          [id |-> known[j], len |-> store[known[j]].len, mh |-> store[known[j]].mh]]

MinHashGetMinhashes(i) ==
    LET a == MinHashActor(i) IN
    /\ Ready(a, "get_minhashes")
    /\ inbox' = [inbox EXCEPT ![a] = Tail(@)]
    /\ pending' = [pending EXCEPT ![Head(inbox[a]).from] = @ - 1]
    /\ replies' = [replies EXCEPT ![Head(inbox[a]).from] =
                      Append(@, get_minhashes(docsMinHash[i], Head(inbox[a]).arg))]
    /\ UNCHANGED <<unit_vars, files, pc, alive, created, pre_vars, store_vars, resolve_vars,
                   sums, sized, filter_vars>>

minhash_size(store) ==
    [amount |-> Cardinality(DOMAIN store),
     memory |-> Cardinality(DOMAIN store) * (2 + num_permutations)]

MinHashGetSize(i) ==
    LET a == MinHashActor(i) IN
    /\ Ready(a, "get_size")
    /\ inbox' = [inbox EXCEPT ![a] = Tail(@)]
    /\ pending' = [pending EXCEPT ![Head(inbox[a]).from] = @ - 1]
    /\ replies' = [replies EXCEPT ![Head(inbox[a]).from] =
                      Append(@, [who |-> a, size |-> minhash_size(docsMinHash[i])])]
    /\ UNCHANGED <<unit_vars, files, pc, alive, created, pre_vars, store_vars, resolve_vars,
                   sums, sized, filter_vars>>

(***************************************************************************)
(* DocCollector: add_cluster, add_removed, filter.                         *)
(***************************************************************************)
Min2(x, y) == IF x <= y THEN x ELSE y

Max2(x, y) == IF x <= y THEN y ELSE x

\* variant: an update for a removed doc id is taken like any other
add_cluster_one_revive(d, doc_id, cluster_id) ==
    IF doc_id \notin DOMAIN d.ids THEN [d EXCEPT !.ids = Put(d.ids, doc_id, cluster_id)]
    ELSE IF d.ids[doc_id] = cluster_id THEN d
    ELSE LET lo == Min2(d.ids[doc_id], cluster_id)
             hi == Max2(d.ids[doc_id], cluster_id)
         IN [d EXCEPT !.ids = [x \in DOMAIN d.ids |->
                                  IF x = doc_id \/ d.ids[x] = hi THEN lo ELSE d.ids[x]]]

\* set or update; a conflicting update resolves to the smallest representative
\* and rewrites whatever the shard holds pointing at the larger one; an update
\* for a removed doc id is dropped
add_cluster_one(d, doc_id, cluster_id) ==
    IF doc_id \in d.removed THEN d
    ELSE IF doc_id \notin DOMAIN d.ids THEN [d EXCEPT !.ids = Put(d.ids, doc_id, cluster_id)]
    ELSE IF d.ids[doc_id] = cluster_id THEN d
    ELSE LET lo == Min2(d.ids[doc_id], cluster_id)
             hi == Max2(d.ids[doc_id], cluster_id)
         IN [d EXCEPT !.ids = [x \in DOMAIN d.ids |->
                                  IF x = doc_id \/ d.ids[x] = hi THEN lo ELSE d.ids[x]]]

RECURSIVE add_cluster(_, _)
add_cluster(d, batch) ==
    IF batch = <<>> THEN d
    ELSE add_cluster(add_cluster_one(d, Head(batch)[1], Head(batch)[2]), Tail(batch))

\* mark as dropped and remove any prior cluster entry
add_removed(d, batch) ==
    [ids |-> [x \in (DOMAIN d.ids) \ Range(batch) |-> d.ids[x]],
     removed |-> d.removed \cup Range(batch)]

\* only the surviving ids, each with its cluster representative
doc_filter(d, ids) ==
    [x \in Range(ids) \cap DOMAIN d.ids |-> d.ids[x]]

DocAddCluster(i) ==
    LET a == DocActor(i) IN
    /\ Ready(a, "add_cluster")
    /\ docs' = [docs EXCEPT ![i] = add_cluster(@, Head(inbox[a]).arg)]
    /\ inbox' = [inbox EXCEPT ![a] = Tail(@)]
    /\ pending' = [pending EXCEPT ![Head(inbox[a]).from] = @ - 1]
    /\ UNCHANGED <<unit_vars, files, pc, alive, created, replies, pre_vars, store_vars,
                   bproc, invQ, proc, sums, sized, filter_vars>>

DocAddRemoved(i) ==
    LET a == DocActor(i) IN
    /\ Ready(a, "add_removed")
    /\ docs' = [docs EXCEPT ![i] = add_removed(@, Head(inbox[a]).arg)]
    /\ inbox' = [inbox EXCEPT ![a] = Tail(@)]
    /\ pending' = [pending EXCEPT ![Head(inbox[a]).from] = @ - 1]
    /\ UNCHANGED <<unit_vars, files, pc, alive, created, replies, pre_vars, store_vars,
                   bproc, invQ, proc, sums, sized, filter_vars>>

DocFilter(i) ==
    LET a == DocActor(i) IN
    /\ Ready(a, "filter")
    /\ inbox' = [inbox EXCEPT ![a] = Tail(@)]
    /\ pending' = [pending EXCEPT ![Head(inbox[a]).from] = @ - 1]
    /\ replies' = [replies EXCEPT ![Head(inbox[a]).from] =
                      Append(@, doc_filter(docs[i], Head(inbox[a]).arg))]
    /\ UNCHANGED <<unit_vars, files, pc, alive, created, pre_vars, store_vars, resolve_vars,
                   sums, sized, filter_vars>>

\* kept count and memory, removed count and memory
doc_size(d) ==
    [amount |-> Cardinality(DOMAIN d.ids), memory |-> 2 * Cardinality(DOMAIN d.ids),
     removed |-> Cardinality(d.removed), removed_memory |-> Cardinality(d.removed)]

DocGetSize(i) ==
    LET a == DocActor(i) IN
    /\ Ready(a, "get_size")
    /\ inbox' = [inbox EXCEPT ![a] = Tail(@)]
    /\ pending' = [pending EXCEPT ![Head(inbox[a]).from] = @ - 1]
    /\ replies' = [replies EXCEPT ![Head(inbox[a]).from] =
                      Append(@, [who |-> a, size |-> doc_size(docs[i])])]
    /\ UNCHANGED <<unit_vars, files, pc, alive, created, pre_vars, store_vars, resolve_vars,
                   sums, sized, filter_vars>>

(***************************************************************************)
(* BucketsHashProcessor, fed by the invoker's pool.                        *)
(***************************************************************************)
\* the get_minhashes calls for one bucket: ids deduplicated, partitioned by shard
RECURSIVE fetch_calls(_, _, _)
fetch_calls(from, ids, i) ==
    IF i >= m_actors THEN <<>>
    ELSE LET req == SelectSeq(ids, LAMBDA d : d % m_actors = i) IN
         (IF Len(req) > 0
          THEN << [to |-> MinHashActor(i), msg |-> Msg("get_minhashes", from, req)] >>
          ELSE <<>>) \o fetch_calls(from, ids, i + 1)

\* a sorts before b: longer document first, ties to the smaller id
Before(a, b) == a.len > b.len \/ (a.len = b.len /\ a.id < b.id)

RECURSIVE sort_docs(_)
sort_docs(S) ==
    IF S = {} THEN <<>>
    ELSE LET x == CHOOSE y \in S : \A z \in S \ {y} : Before(y, z)
         IN <<x>> \o sort_docs(S \ {x})

match_count(sa, sb) == Cardinality({k \in DOMAIN sa : sa[k] = sb[k]})

\* a walk that skips the signature comparison: every doc of the bucket joins
\* the cluster of the first one
RECURSIVE walk_unchecked(_, _, _)
walk_unchecked(rest, rep, acc) ==
    IF rest = <<>> THEN acc
    ELSE LET e == Head(rest) IN
         walk_unchecked(Tail(rest), rep,
                        [acc EXCEPT !.clusters = Append(@, <<e.id, rep.id>>),
                                    !.removed = Append(@, e.id)])

\* walk the sorted docs: a doc that matches the current representative joins
\* its cluster, another one opens a sub-cluster of its own
RECURSIVE walk(_, _, _)
walk(rest, rep, acc) ==
    IF rest = <<>> THEN acc
    ELSE LET e == Head(rest) IN
         IF match_count(rep.mh, e.mh) >= threshold
         THEN walk(Tail(rest), rep,
                   [acc EXCEPT !.clusters = Append(@, <<e.id, rep.id>>),
                               !.removed = Append(@, e.id)])
         ELSE walk(Tail(rest), e, [acc EXCEPT !.clusters = Append(@, <<e.id, e.id>>)])

process_bucket(entries) ==
    LET sorted == sort_docs(entries) IN
    IF Len(sorted) < 2 THEN [clusters |-> <<>>, removed |-> <<>>]
    ELSE walk(Tail(sorted), sorted[1],
              [clusters |-> << <<sorted[1].id, sorted[1].id>> >>, removed |-> <<>>])

\* the add_cluster calls for one bucket, partitioned by doc shard
RECURSIVE cluster_calls(_, _, _)
cluster_calls(from, clusters, i) ==
    IF i >= d_actors THEN <<>>
    ELSE LET cl == SelectSeq(clusters, LAMBDA e : e[1] % d_actors = i)
         IN (IF Len(cl) > 0
             THEN << [to |-> DocActor(i), msg |-> Msg("add_cluster", from, cl)] >>
             ELSE <<>>)
            \o cluster_calls(from, clusters, i + 1)

\* the add_removed calls for one bucket, partitioned by doc shard
RECURSIVE removed_calls(_, _, _)
removed_calls(from, removed, i) ==
    IF i >= d_actors THEN <<>>
    ELSE LET rm == SelectSeq(removed, LAMBDA d : d % d_actors = i)
         IN (IF Len(rm) > 0
             THEN << [to |-> DocActor(i), msg |-> Msg("add_removed", from, rm)] >>
             ELSE <<>>)
            \o removed_calls(from, removed, i + 1)

RECURSIVE Flatten(_)
Flatten(ss) == IF ss = <<>> THEN <<>> ELSE Head(ss) \o Flatten(Tail(ss))

\* a free processor takes the next request and fetches its first bucket
ProcTake(p) ==
    LET a == ProcessorActor(p)
        calls == fetch_calls(a, Head(invQ)[1].ids, 0)
    IN
    /\ a \in alive
    /\ proc[p].st = "idle"
    /\ invQ # <<>>
    /\ invQ' = Tail(invQ)
    /\ proc' = [proc EXCEPT ![p] = [st |-> "fetch", batch |-> Head(invQ), i |-> 1, rm |-> <<>>]]
    /\ inbox' = Deliver(inbox, calls)
    /\ pending' = [pending EXCEPT ![a] = Len(calls)]
    /\ UNCHANGED <<unit_vars, files, pc, alive, created, replies, pre_vars, store_vars,
                   bproc, docs, sums, sized, filter_vars>>

\* the signatures are in: form the clusters and send the cluster decisions
ProcCluster(p) ==
    LET a == ProcessorActor(p)
        res == process_bucket(Range(Flatten(replies[a])))
        calls == cluster_calls(a, res.clusters, 0)
    IN
    /\ a \in alive
    /\ proc[p].st = "fetch"
    /\ pending[a] = 0
    /\ proc' = [proc EXCEPT ![p].st = "clusters", ![p].rm = res.removed]
    /\ inbox' = Deliver(inbox, calls)
    /\ pending' = [pending EXCEPT ![a] = Len(calls)]
    /\ replies' = [replies EXCEPT ![a] = <<>>]
    /\ UNCHANGED <<unit_vars, files, pc, alive, created, pre_vars, store_vars,
                   bproc, invQ, docs, sums, sized, filter_vars>>

\* then the removals, issued without waiting for the cluster decisions
ProcRemove(p) ==
    LET a == ProcessorActor(p)
        calls == removed_calls(a, proc[p].rm, 0)
    IN
    /\ a \in alive
    /\ proc[p].st = "clusters"
    /\ proc' = [proc EXCEPT ![p].st = "emit", ![p].rm = <<>>]
    /\ inbox' = Deliver(inbox, calls)
    /\ pending' = [pending EXCEPT ![a] = @ + Len(calls)]
    /\ UNCHANGED <<unit_vars, files, pc, alive, created, replies, pre_vars, store_vars,
                   bproc, invQ, docs, sums, sized, filter_vars>>

\* the decisions are acknowledged: next bucket of the request, or free again
ProcNext(p) ==
    LET a == ProcessorActor(p)
        r == proc[p]
    IN
    /\ a \in alive
    /\ r.st = "emit"
    /\ pending[a] = 0
    /\ IF r.i < Len(r.batch)
       THEN LET calls == fetch_calls(a, r.batch[r.i + 1].ids, 0) IN
            /\ proc' = [proc EXCEPT ![p] = [r EXCEPT !.st = "fetch", !.i = r.i + 1]]
            /\ inbox' = Deliver(inbox, calls)
            /\ pending' = [pending EXCEPT ![a] = Len(calls)]
       ELSE /\ proc' = [proc EXCEPT ![p] = IdleProcessor]
            /\ UNCHANGED <<inbox, pending>>
    /\ UNCHANGED <<unit_vars, files, pc, alive, created, replies, pre_vars, store_vars,
                   bproc, invQ, docs, sums, sized, filter_vars>>

(***************************************************************************)
(* FdedupFilter.                                                           *)
(***************************************************************************)
ids_of(table) == [n \in 1..Len(table) |-> table[n].id]

RECURSIVE filter_calls(_, _, _)
filter_calls(from, ids, i) ==
    IF i >= d_actors THEN <<>>
    ELSE LET req == SelectSeq(ids, LAMBDA d : d % d_actors = i) IN
         (IF Len(req) > 0
          THEN << [to |-> DocActor(i), msg |-> Msg("filter", from, req)] >>
          ELSE <<>>) \o filter_calls(from, ids, i + 1)

\* unique.update(reply) for each reply, in arrival order
RECURSIVE update_all(_, _)
update_all(unique, rs) ==
    IF rs = <<>> THEN unique
    ELSE LET reply == Head(rs) IN
         update_all([x \in (DOMAIN unique) \cup (DOMAIN reply) |->
                        IF x \in DOMAIN reply THEN reply[x] ELSE unique[x]], Tail(rs))

\* (mutation of filter_rows: the cluster list is built from the row ids)
RECURSIVE filter_rows_own_id(_, _, _)
filter_rows_own_id(table, n, unique) ==
    IF n > Len(table) THEN <<>>
    ELSE LET doc_id == table[n].id IN
         IF doc_id \in DOMAIN unique
         THEN << [id |-> doc_id, contents |-> table[n].contents, cluster |-> doc_id] >>
              \o filter_rows_own_id(table, n + 1, Drop(unique, doc_id))
         ELSE filter_rows_own_id(table, n + 1, unique)

\* variant: the survivor entry stays in the map when a row is kept
RECURSIVE filter_rows_no_pop(_, _, _)
filter_rows_no_pop(table, n, unique) ==
    IF n > Len(table) THEN <<>>
    ELSE LET doc_id == table[n].id IN
         IF doc_id \in DOMAIN unique
         THEN << [id |-> doc_id, contents |-> table[n].contents, cluster |-> unique[doc_id]] >>
              \o filter_rows_no_pop(table, n + 1, unique)
         ELSE filter_rows_no_pop(table, n + 1, unique)

\* the loop building mask and clusters; returns the kept rows with their cluster
RECURSIVE filter_rows(_, _, _)
filter_rows(table, n, unique) ==
    IF n > Len(table) THEN <<>>
    ELSE LET doc_id == table[n].id IN
         IF doc_id \in DOMAIN unique
         THEN << [id |-> doc_id, contents |-> table[n].contents, cluster |-> unique[doc_id]] >>
              \o filter_rows(table, n + 1, Drop(unique, doc_id))
         ELSE filter_rows(table, n + 1, unique)

\* the same loop, as the mask and the cluster list it builds
RECURSIVE filter_mask(_, _, _)
filter_mask(table, n, unique) ==
    IF n > Len(table) THEN <<>>
    ELSE IF table[n].id \in DOMAIN unique
         THEN <<TRUE>> \o filter_mask(table, n + 1, Drop(unique, table[n].id))
         ELSE <<FALSE>> \o filter_mask(table, n + 1, unique)

RECURSIVE filter_clusters(_, _, _)
filter_clusters(table, n, unique) ==
    IF n > Len(table) THEN <<>>
    ELSE IF table[n].id \in DOMAIN unique
         THEN <<unique[table[n].id]>> \o filter_clusters(table, n + 1, Drop(unique, table[n].id))
         ELSE filter_clusters(table, n + 1, unique)

\* variant: the two counts of the statistics are exchanged
filter_transform_swapped(table, unique) ==
    LET out_table == filter_rows(table, 1, unique) IN
    [table |-> out_table,
     unique |-> unique,
     mask |-> filter_mask(table, 1, unique),
     clusters |-> filter_clusters(table, 1, unique),
     stats |-> [source_documents |-> Len(out_table), result_documents |-> Len(table)]]

filter_transform(table, unique) ==
    LET out_table == filter_rows(table, 1, unique) IN
    [table |-> out_table,
     unique |-> unique,
     mask |-> filter_mask(table, 1, unique),
     clusters |-> filter_clusters(table, 1, unique),
     stats |-> [source_documents |-> Len(table), result_documents |-> Len(out_table)]]

\* what transform returns for a table that lacks a required column
SkippedTable == [tables |-> <<>>, stats |-> EmptyDict]

FilterStart(w) ==
    LET a == FilterActor(w) IN
    /\ pc = "filter"
    /\ a \in alive
    /\ fworker[w].st = "idle"
    /\ todo # <<>>
    /\ todo' = Tail(todo)
    /\ IF validate_columns(files[Head(todo)], {doc_column, doc_id_column})
       THEN LET calls == filter_calls(a, ids_of(files[Head(todo)]), 0) IN
            /\ fworker' = [fworker EXCEPT ![w] = [st |-> "wait", file |-> Head(todo)]]
            /\ inbox' = Deliver(inbox, calls)
            /\ pending' = [pending EXCEPT ![a] = Len(calls)]
            /\ UNCHANGED out
       ELSE /\ out' = Put(out, Head(todo), SkippedTable)
            /\ UNCHANGED <<fworker, inbox, pending>>
    /\ UNCHANGED <<unit_vars, files, pc, alive, created, replies, reader, prestats,
                   store_vars, resolve_vars, sums, sized, metadata>>

FilterDone(w) ==
    LET a == FilterActor(w)
        f == fworker[w].file
    IN
    /\ a \in alive
    /\ fworker[w].st = "wait"
    /\ pending[a] = 0
    /\ out' = Put(out, f, filter_transform(files[f], update_all(EmptyDict, replies[a])))
    /\ replies' = [replies EXCEPT ![a] = <<>>]
    /\ fworker' = [fworker EXCEPT ![w] = IdleFilter]
    /\ UNCHANGED <<unit_vars, files, pc, alive, created, inbox, pending, pre_vars,
                   store_vars, resolve_vars, sums, sized, metadata>>

(***************************************************************************)
(* FdedupRuntime.set_environment.                                          *)
(***************************************************************************)
\* one call without argument to each of the actors, in order
calls_to(actors, op) ==
    [j \in 1..Len(actors) |-> [to |-> actors[j], msg |-> Msg(op, Coordinator, <<>>)]]

BucketActorList == [j \in 1..b_actors |-> BucketActor(j - 1)]

MinHashActorList == [j \in 1..m_actors |-> MinHashActor(j - 1)]

\* create the bucket and minhash collectors and the preprocessing workers
CreatePreprocessing ==
    /\ pc = "start"
    /\ alive' = alive \cup BucketActors \cup MinHashActors \cup ReaderActors
    /\ created' = created \cup BucketActors \cup MinHashActors \cup ReaderActors
    /\ todo' = [i \in 1..Len(files) |-> i]
    /\ pc' = "preprocess"
    /\ UNCHANGED <<unit_vars, files, inbox, pending, replies, reader, prestats,
                   store_vars, resolve_vars, sums, sized, filter_vars>>

\* process_files has returned: kill the workers, create the doc collectors,
\* the bucket processors and the invoker, register the invoker
RegisterInvoker ==
    /\ pc = "preprocess"
    /\ todo = <<>>
    /\ \A w \in Readers : reader[w].st = "idle"
    /\ alive' = (alive \ ReaderActors) \cup DocActors \cup ProcessorActors \cup {InvokerActor}
    /\ created' = created \cup DocActors \cup ProcessorActors \cup {InvokerActor}
    /\ inbox' = Deliver(inbox, calls_to(BucketActorList, "add_processing_submitter"))
    /\ pending' = [pending EXCEPT ![Coordinator] = b_actors]
    /\ pc' = "register"
    /\ UNCHANGED <<unit_vars, files, replies, pre_vars, store_vars, resolve_vars, sums, sized,
                   filter_vars>>

\* variant: process_buckets is issued without waiting for the registrations
StartProcessing_unawaited ==
    /\ pc = "register"
    /\ inbox' = Deliver(inbox, calls_to(BucketActorList, "process_buckets"))
    /\ pending' = [pending EXCEPT ![Coordinator] = b_actors]
    /\ pc' = "process"
    /\ UNCHANGED <<unit_vars, files, alive, created, replies, pre_vars, store_vars, resolve_vars,
                   sums, sized, filter_vars>>

\* the registrations are acknowledged: start bucket processing
StartProcessing ==
    /\ pc = "register"
    /\ pending[Coordinator] = 0
    /\ inbox' = Deliver(inbox, calls_to(BucketActorList, "process_buckets"))
    /\ pending' = [pending EXCEPT ![Coordinator] = b_actors]
    /\ pc' = "process"
    /\ UNCHANGED <<unit_vars, files, alive, created, replies, pre_vars, store_vars, resolve_vars,
                   sums, sized, filter_vars>>

\* variant: process_buckets is fired without waiting for its results
WaitForCompletion_unawaited ==
    /\ pc = "process"
    /\ pc' = "drain"
    /\ UNCHANGED <<unit_vars, files, alive, created, inbox, pending, replies, pre_vars, store_vars,
                   resolve_vars, sums, sized, filter_vars>>

\* every process_buckets has returned: wait for the pool to complete
WaitForCompletion ==
    /\ pc = "process"
    /\ pending[Coordinator] = 0
    /\ pc' = "drain"
    /\ UNCHANGED <<unit_vars, files, alive, created, inbox, pending, replies, pre_vars, store_vars,
                   resolve_vars, sums, sized, filter_vars>>

\* BucketsHashProcessorInvoker.wait_for_completion returns once nothing is
\* queued and no processor is busy
InvokerCompleted ==
    /\ pc = "drain"
    /\ InvokerActor \in alive
    /\ Outstanding = 0
    /\ pc' = "drained"
    /\ UNCHANGED <<unit_vars, files, alive, created, inbox, pending, replies, pre_vars, store_vars,
                   resolve_vars, sums, sized, filter_vars>>

\* ask the bucket collectors for their size
AskBucketSizes ==
    /\ pc = "drained"
    /\ inbox' = Deliver(inbox, calls_to(BucketActorList, "get_size"))
    /\ pending' = [pending EXCEPT ![Coordinator] = b_actors]
    /\ pc' = "bucket_sizes"
    /\ UNCHANGED <<unit_vars, files, alive, created, replies, pre_vars, store_vars, resolve_vars,
                   sums, sized, filter_vars>>

\* one pass of the ray.wait loop over the bucket collectors' replies
ReadBucketSize ==
    /\ pc = "bucket_sizes"
    /\ replies[Coordinator] # <<>>
    /\ LET r == Head(replies[Coordinator]) IN
       /\ sums' = [sums EXCEPT !.buckets = @ + r.size.amount,
                               !.buckets_mem = @ + r.size.memory]
       /\ sized' = sized \cup {r.who}
    /\ replies' = [replies EXCEPT ![Coordinator] = Tail(@)]
    /\ UNCHANGED <<unit_vars, files, pc, alive, created, inbox, pending, pre_vars, store_vars,
                   resolve_vars, filter_vars>>

\* variant: the bucket collectors are killed without reading their sizes
KillBucketCollectors_unread ==
    /\ pc = "bucket_sizes"
    /\ alive' = alive \ BucketActors
    /\ inbox' = Deliver(inbox, calls_to(MinHashActorList, "get_size"))
    /\ pending' = [pending EXCEPT ![Coordinator] = m_actors]
    /\ pc' = "minhash_sizes"
    /\ UNCHANGED <<unit_vars, files, created, replies, pre_vars, store_vars, resolve_vars,
                   sums, sized, filter_vars>>

\* all sizes read: kill the bucket collectors, ask the minhash collectors
KillBucketCollectors ==
    /\ pc = "bucket_sizes"
    /\ pending[Coordinator] = 0
    /\ replies[Coordinator] = <<>>
    /\ alive' = alive \ BucketActors
    /\ inbox' = Deliver(inbox, calls_to(MinHashActorList, "get_size"))
    /\ pending' = [pending EXCEPT ![Coordinator] = m_actors]
    /\ pc' = "minhash_sizes"
    /\ UNCHANGED <<unit_vars, files, created, replies, pre_vars, store_vars, resolve_vars,
                   sums, sized, filter_vars>>

ReadMinHashSize ==
    /\ pc = "minhash_sizes"
    /\ replies[Coordinator] # <<>>
    /\ LET r == Head(replies[Coordinator]) IN
       /\ sums' = [sums EXCEPT !.mh = @ + r.size.amount, !.mh_mem = @ + r.size.memory]
       /\ sized' = sized \cup {r.who}
    /\ replies' = [replies EXCEPT ![Coordinator] = Tail(@)]
    /\ UNCHANGED <<unit_vars, files, pc, alive, created, inbox, pending, pre_vars, store_vars,
                   resolve_vars, filter_vars>>

\* kill the minhash collectors, the bucket processors and the invoker, and
\* return the configuration of the filter
ReturnFilterConfig ==
    /\ pc = "minhash_sizes"
    /\ pending[Coordinator] = 0
    /\ replies[Coordinator] = <<>>
    /\ alive' = alive \ (MinHashActors \cup ProcessorActors \cup {InvokerActor})
    /\ pc' = "returned"
    /\ UNCHANGED <<unit_vars, files, created, inbox, pending, replies, pre_vars, store_vars,
                   resolve_vars, sums, sized, filter_vars>>

(***************************************************************************)
(* The launcher's filter stage: table workers configured with the doc      *)
(* collectors run FdedupFilter.transform over the input tables.            *)
(***************************************************************************)
StartFilter ==
    /\ pc = "returned"
    /\ alive' = alive \cup FilterActors
    /\ created' = created \cup FilterActors
    /\ todo' = [i \in 1..Len(files) |-> i]
    /\ pc' = "filter"
    /\ UNCHANGED <<unit_vars, files, inbox, pending, replies, reader, prestats, store_vars,
                   resolve_vars, sums, sized, filter_vars>>

FinishFilter ==
    /\ pc = "filter"
    /\ todo = <<>>
    /\ \A w \in FilterWorkers : fworker[w].st = "idle"
    /\ alive' = alive \ FilterActors
    /\ pc' = "filtered"
    /\ UNCHANGED <<unit_vars, files, created, inbox, pending, replies, pre_vars, store_vars,
                   resolve_vars, sums, sized, filter_vars>>

(***************************************************************************)
(* FdedupRuntime.compute_execution_stats, called with the statistics the   *)
(* filter stage returned, summed over the tables.                          *)
(***************************************************************************)
DocActorList == [j \in 1..d_actors |-> DocActor(j - 1)]

\* the per-table statistics summed key by key; a key no table reported is absent
RECURSIVE sum_key(_, _, _)
sum_key(results, key, fs) ==
    IF fs = {} THEN 0
    ELSE LET f == CHOOSE g \in fs : TRUE
         IN Get(results[f].stats, key, 0) + sum_key(results, key, fs \ {f})

table_stats(results) ==
    [key \in UNION {DOMAIN results[f].stats : f \in DOMAIN results} |->
        sum_key(results, key, DOMAIN results)]

\* the division of the de duplication % is by zero
stats_raise(stats) == Get(stats, "source_documents", 0) = 0

overall_hash_memory(sm) ==
    sm.buckets_mem + sm.mh_mem + sm.docs_mem + sm.docs_mem + sm.removed_mem

\* the returned dict; the percentage is kept as the exact quotient
\* 100 * (source - result) / source
compute_execution_stats(sm, stats) ==
    [returned |-> TRUE,
     raised |-> FALSE,
     number_of_buckets |-> sm.buckets,
     number_of_docs |-> sm.docs,
     number_of_removed_docs |-> sm.removed,
     number_of_min_hashes |-> sm.mh,
     overall_hash_memory |-> overall_hash_memory(sm),
     de_duplication |->
        [num |-> 100 * (Get(stats, "source_documents", 0) - Get(stats, "result_documents", 1)),
         den |-> Get(stats, "source_documents", 0)],
     stats |-> stats]

AskDocSizes ==
    /\ pc = "filtered"
    /\ inbox' = Deliver(inbox, calls_to(DocActorList, "get_size"))
    /\ pending' = [pending EXCEPT ![Coordinator] = d_actors]
    /\ pc' = "doc_sizes"
    /\ UNCHANGED <<unit_vars, files, alive, created, replies, pre_vars, store_vars, resolve_vars,
                   sums, sized, filter_vars>>

\* one pass of the ray.wait loop over the doc collectors' replies
ReadDocSize ==
    /\ pc = "doc_sizes"
    /\ replies[Coordinator] # <<>>
    /\ LET r == Head(replies[Coordinator]) IN
       /\ sums' = [sums EXCEPT !.docs = @ + r.size.amount,
                               !.docs_mem = @ + r.size.memory,
                               !.removed = @ + r.size.removed,
                               !.removed_mem = @ + r.size.removed_memory]
       /\ sized' = sized \cup {r.who}
    /\ replies' = [replies EXCEPT ![Coordinator] = Tail(@)]
    /\ UNCHANGED <<unit_vars, files, pc, alive, created, inbox, pending, pre_vars, store_vars,
                   resolve_vars, filter_vars>>

\* all sizes read: the statistics are returned, or the division raises
ComputeStats ==
    /\ pc = "doc_sizes"
    /\ pending[Coordinator] = 0
    /\ replies[Coordinator] = <<>>
    /\ IF stats_raise(table_stats(out))
       THEN /\ metadata' = [returned |-> FALSE, raised |-> TRUE]
            /\ pc' = "raised"
       ELSE /\ metadata' = compute_execution_stats(sums, table_stats(out))
            /\ pc' = "done"
    /\ UNCHANGED <<unit_vars, files, alive, created, inbox, pending, replies, pre_vars,
                   store_vars, resolve_vars, sums, sized, fworker, out>>

Next ==
    \/ CreatePreprocessing
    \/ \E w \in Readers : PreStart(w)
    \/ \E w \in Readers : PreRow(w)
    \/ \E w \in Readers : PreEnd(w)
    \/ \E w \in Readers : PreFlushed(w)
    \/ \E i \in BucketShards : BucketAddBuckets(i)
    \/ \E i \in MinHashShards : MinHashAddMinhashes(i)
    \/ RegisterInvoker
    \/ \E i \in BucketShards : BucketAddSubmitter(i)
    \/ StartProcessing
    \/ \E i \in BucketShards : BucketProcessStart(i)
    \/ \E i \in BucketShards : BucketSubmit(i)
    \/ \E i \in BucketShards : BucketProcessDone(i)
    \/ \E p \in Processors : ProcTake(p)
    \/ \E i \in MinHashShards : MinHashGetMinhashes(i)
    \/ \E p \in Processors : ProcCluster(p)
    \/ \E p \in Processors : ProcRemove(p)
    \/ \E i \in DocShards : DocAddCluster(i)
    \/ \E i \in DocShards : DocAddRemoved(i)
    \/ \E p \in Processors : ProcNext(p)
    \/ WaitForCompletion
    \/ InvokerCompleted
    \/ AskBucketSizes
    \/ \E i \in BucketShards : BucketGetSize(i)
    \/ ReadBucketSize
    \/ KillBucketCollectors
    \/ \E i \in MinHashShards : MinHashGetSize(i)
    \/ ReadMinHashSize
    \/ ReturnFilterConfig
    \/ StartFilter
    \/ \E w \in FilterWorkers : FilterStart(w)
    \/ \E i \in DocShards : DocFilter(i)
    \/ \E w \in FilterWorkers : FilterDone(w)
    \/ FinishFilter
    \/ AskDocSizes
    \/ \E i \in DocShards : DocGetSize(i)
    \/ ReadDocSize
    \/ ComputeStats

Spec == Init /\ [][Next]_vars

(***************************************************************************)
(* FdedupPreprocessor.transform on its own: one table of up to             *)
(* MaxTableRows rows with the doc ids 1, 2, ... is preprocessed by workers *)
(* configured with or without the tokenizer, against live bucket and       *)
(* minhash collectors.                                                     *)
(***************************************************************************)
MaxTableRows == 5

PreTexts == {Tab, Tabc}

PreTables ==
    {[n \in 1..Len(t) |-> Row(n, t[n])] :
        t \in UNION {[1..k -> PreTexts] : k \in 0..MaxTableRows}}

PreInit ==
    /\ \E t \in PreTables : files = <<t>>
    /\ pc = "preprocess"
    /\ alive = BucketActors \cup MinHashActors \cup ReaderActors
    /\ created = BucketActors \cup MinHashActors \cup ReaderActors
    /\ inbox = [a \in Collectors |-> <<>>]
    /\ pending = [c \in Callers |-> 0]
    /\ replies = [c \in Callers |-> <<>>]
    /\ todo = <<1>>
    /\ \E j \in BOOLEAN : reader = [w \in Readers |-> [IdleReader EXCEPT !.is_japanese = j]]
    /\ prestats = EmptyDict
    /\ bucketsHash = [i \in BucketShards |-> EmptyDict]
    /\ docsMinHash = [i \in MinHashShards |-> EmptyDict]
    /\ bproc = [i \in BucketShards |-> IdleBucket]
    /\ invQ = <<>>
    /\ proc = [p \in Processors |-> IdleProcessor]
    /\ docs = [i \in DocShards |-> [ids |-> EmptyDict, removed |-> {}]]
    /\ sums = NoSums
    /\ sized = {}
    /\ fworker = [w \in FilterWorkers |-> IdleFilter]
    /\ out = EmptyDict
    /\ metadata = NoMetadata
    /\ shingler = IdleShingler
    /\ launch = IdleLaunch
    /\ sent = NothingSent
    /\ blocklist = IdleBlockList

PreNext ==
    \/ \E w \in Readers : PreStart(w)
    \/ \E w \in Readers : PreRow(w)
    \/ \E w \in Readers : PreEnd(w)
    \/ \E w \in Readers : PreFlushed(w)
    \/ \E i \in BucketShards : BucketAddBuckets(i)
    \/ \E i \in MinHashShards : MinHashAddMinhashes(i)

PreSpec == PreInit /\ [][PreNext]_vars

(***************************************************************************)
(* The same pipeline over corpora in which one table lacks a required      *)
(* column.                                                                 *)
(***************************************************************************)
\* the second table has no document column
NoDocColumn == << <<Row(1, Ta), Row(2, Ta)>>, <<[id |-> 3]>> >>

\* the first table has no doc-id column
NoIdColumn == << <<[contents |-> Ta]>>, <<Row(1, Ta), Row(2, Ta)>> >>

SchemaCorpora == {NoDocColumn, NoIdColumn}

SchemaInit ==
    /\ files \in SchemaCorpora
    /\ pc = "start"
    /\ alive = {}
    /\ created = {}
    /\ inbox = [a \in Collectors |-> <<>>]
    /\ pending = [c \in Callers |-> 0]
    /\ replies = [c \in Callers |-> <<>>]
    /\ todo = <<>>
    /\ reader = [w \in Readers |-> IdleReader]
    /\ prestats = EmptyDict
    /\ bucketsHash = [i \in BucketShards |-> EmptyDict]
    /\ docsMinHash = [i \in MinHashShards |-> EmptyDict]
    /\ bproc = [i \in BucketShards |-> IdleBucket]
    /\ invQ = <<>>
    /\ proc = [p \in Processors |-> IdleProcessor]
    /\ docs = [i \in DocShards |-> [ids |-> EmptyDict, removed |-> {}]]
    /\ sums = NoSums
    /\ sized = {}
    /\ fworker = [w \in FilterWorkers |-> IdleFilter]
    /\ out = EmptyDict
    /\ metadata = NoMetadata
    /\ shingler = IdleShingler
    /\ launch = IdleLaunch
    /\ sent = NothingSent
    /\ blocklist = IdleBlockList

SchemaSpec == SchemaInit /\ [][Next]_vars
(***************************************************************************)
(* FdedupFilter.transform on its own: one table of up to MaxRows rows with *)
(* ids in 1..MaxId (repeated ids included) is filtered against doc         *)
(* collectors that hold an arbitrary map from ids to cluster ids.          *)
(***************************************************************************)
MaxRows == 3

MaxId == 2

FilterTables ==
    UNION {[1..n -> {Row(d, Ta) : d \in 1..MaxId}] : n \in 0..MaxRows}

\* the maps a run can leave in the shards: a doc id lives in shard id mod N
FilterDocs ==
    {[i \in DocShards |-> [ids |-> [x \in {y \in DOMAIN g : y % d_actors = i} |-> g[x]],
                           removed |-> {}]] :
        g \in UNION {[S -> 1..MaxId] : S \in SUBSET (1..MaxId)}}

FilterInit ==
    /\ files \in {<<t>> : t \in FilterTables}
    /\ docs \in FilterDocs
    /\ pc = "filter"
    /\ alive = DocActors \cup FilterActors
    /\ created = Collectors \cup ReaderActors \cup ProcessorActors \cup FilterActors
                   \cup {InvokerActor}
    /\ inbox = [a \in Collectors |-> <<>>]
    /\ pending = [c \in Callers |-> 0]
    /\ replies = [c \in Callers |-> <<>>]
    /\ todo = <<1>>
    /\ reader = [w \in Readers |-> IdleReader]
    /\ prestats = EmptyDict
    /\ bucketsHash = [i \in BucketShards |-> EmptyDict]
    /\ docsMinHash = [i \in MinHashShards |-> EmptyDict]
    /\ bproc = [i \in BucketShards |-> IdleBucket]
    /\ invQ = <<>>
    /\ proc = [p \in Processors |-> IdleProcessor]
    /\ sums = NoSums
    /\ sized = {}
    /\ fworker = [w \in FilterWorkers |-> IdleFilter]
    /\ out = EmptyDict
    /\ metadata = NoMetadata
    /\ shingler = IdleShingler
    /\ launch = IdleLaunch
    /\ sent = NothingSent
    /\ blocklist = IdleBlockList

FilterNext ==
    \/ \E w \in FilterWorkers : FilterStart(w)
    \/ \E i \in DocShards : DocFilter(i)
    \/ \E w \in FilterWorkers : FilterDone(w)
    \/ FinishFilter

FilterSpec == FilterInit /\ [][FilterNext]_vars

(***************************************************************************)
(* One preprocessing worker shingling documents one after the other.       *)
(***************************************************************************)
MaxText == 5

MaxShingle == 3

MaxCalls == 2

Alphabet == {"a", " "}

Texts == UNION {[1..n -> Alphabet] : n \in 0..MaxText}

Delimiters == {" ", "a"}

\* no pipeline is running
Quiet ==
    /\ files = <<>>
    /\ pc = "off"
    /\ alive = {}
    /\ created = {}
    /\ inbox = [a \in Collectors |-> <<>>]
    /\ pending = [c \in Callers |-> 0]
    /\ replies = [c \in Callers |-> <<>>]
    /\ todo = <<>>
    /\ reader = [w \in Readers |-> IdleReader]
    /\ prestats = EmptyDict
    /\ bucketsHash = [i \in BucketShards |-> EmptyDict]
    /\ docsMinHash = [i \in MinHashShards |-> EmptyDict]
    /\ bproc = [i \in BucketShards |-> IdleBucket]
    /\ invQ = <<>>
    /\ proc = [p \in Processors |-> IdleProcessor]
    /\ docs = [i \in DocShards |-> [ids |-> EmptyDict, removed |-> {}]]
    /\ sums = NoSums
    /\ sized = {}
    /\ fworker = [w \in FilterWorkers |-> IdleFilter]
    /\ out = EmptyDict
    /\ metadata = NoMetadata

pipeline_vars == <<files, pc, alive, created, inbox, pending, replies, todo, reader,
                   prestats, bucketsHash, docsMinHash, bproc, invQ, proc, docs, sums,
                   sized, fworker, out, metadata>>

ShinglerInit ==
    /\ Quiet
    /\ launch = IdleLaunch
    /\ sent = NothingSent
    /\ blocklist = IdleBlockList
    /\ shingler \in {[configured |-> j, is_japanese |-> j, d |-> d, w |-> w,
                      n |-> 0, last |-> NoCall] :
                        j \in BOOLEAN, d \in Delimiters, w \in 1..MaxShingle}

\* the worker shingles its next document
ShingleDocument ==
    \E text \in Texts, raises \in BOOLEAN :
        /\ shingler.n < MaxCalls
        /\ raises => shingler.is_japanese
        /\ LET r == shingle_call(shingler.is_japanese, text, shingler.d, shingler.w, raises) IN
           shingler' = [shingler EXCEPT !.is_japanese = r.is_japanese,
                                        !.n = @ + 1,
                                        !.last = [text |-> text, path |-> r.path,
                                                  raised |-> raises, shingles |-> r.shingles]]
        /\ UNCHANGED <<pipeline_vars, launch, sent, blocklist>>

ShinglerNext == ShingleDocument

ShinglerSpec == ShinglerInit /\ [][ShinglerNext]_vars

(***************************************************************************)
(* Configuration and start of the run: apply_input_params, the first part  *)
(* of set_environment, FdedupPreprocessor.__init__ and the first submit of *)
(* a preprocessing worker.                                                 *)
(***************************************************************************)
MaxShards == 2

ShardCounts == {-1} \cup (1..MaxShards)

None == [none |-> TRUE]

LaunchArgs ==
    [delimiters : Delimiters, shingles_size : 1..MaxShingle,
     num_bucket_actors : ShardCounts, num_minhash_actors : ShardCounts,
     worker_options : {None, [num_cpus |-> WorkerCpus]}]

\* RayUtils.create_actors: one actor per index of range(n_actors)
create_actors(n_actors) == IF n_actors > 0 THEN n_actors ELSE 0

LaunchInit ==
    /\ Quiet
    /\ shingler = IdleShingler
    /\ sent = NothingSent
    /\ blocklist = IdleBlockList
    /\ launch \in {[IdleLaunch EXCEPT !.lpc = "parsed", !.args = a] : a \in LaunchArgs}

apply_input_params(args) ==
    [k \in {"worker_options", "b_actors", "m_actors", "world_shingle_size", "delimiters"} |->
        CASE k = "worker_options" -> args.worker_options
          [] k = "b_actors" -> args.num_bucket_actors
          [] k = "m_actors" -> args.num_minhash_actors
          [] k = "world_shingle_size" -> args.shingles_size
          [] k = "delimiters" -> args.delimiters]

ApplyInputParams ==
    /\ launch.lpc = "parsed"
    /\ launch' = [launch EXCEPT !.lpc = "applied", !.params = apply_input_params(launch.args)]
    /\ UNCHANGED <<pipeline_vars, shingler, sent, blocklist>>

CreateBucketCollectors ==
    /\ launch.lpc = "applied"
    /\ launch' = [launch EXCEPT !.lpc = "buckets",
                                !.buckets = create_actors(Get(launch.params, "b_actors", 1))]
    /\ UNCHANGED <<pipeline_vars, shingler, sent, blocklist>>

CreateMinhashCollectors ==
    /\ launch.lpc = "buckets"
    /\ launch' = [launch EXCEPT !.lpc = "minhashes",
                                !.minhashes = create_actors(Get(launch.params, "m_actors", 1))]
    /\ UNCHANGED <<pipeline_vars, shingler, sent, blocklist>>

\* worker_options["num_cpus"] raises when there are no worker options;
\* otherwise the table workers are created with their configuration
CreateTableWorkers ==
    /\ launch.lpc = "minhashes"
    /\ IF Get(launch.params, "worker_options", None) = None
       THEN launch' = [launch EXCEPT !.lpc = "failed", !.error = "worker_options"]
       ELSE launch' = [launch EXCEPT
                !.lpc = "workers",
                !.workers = create_actors(n_readers),
                !.worker = [delimiter |-> Get(launch.params, "delimiter", " "),
                            word_shingle_size |-> Get(launch.params, "world_shingle_size", 1)]]
    /\ UNCHANGED <<pipeline_vars, shingler, sent, blocklist>>

\* _submit_buckets_minhashes takes the key modulo the number of collectors
WorkerSubmits ==
    /\ launch.lpc = "workers"
    /\ IF launch.buckets = 0 \/ launch.minhashes = 0
       THEN launch' = [launch EXCEPT !.lpc = "failed", !.error = "modulo by zero"]
       ELSE launch' = [launch EXCEPT !.lpc = "running"]
    /\ UNCHANGED <<pipeline_vars, shingler, sent, blocklist>>

LaunchNext ==
    \/ ApplyInputParams
    \/ CreateBucketCollectors
    \/ CreateMinhashCollectors
    \/ CreateTableWorkers
    \/ WorkerSubmits

LaunchSpec == LaunchInit /\ [][LaunchNext]_vars

(***************************************************************************)
(* The doc collectors alone: bucket processors send them keep and remove   *)
(* decisions in any order, then one table is filtered.                     *)
(***************************************************************************)
MaxDoc == 3

MaxSent == 2

DocIds == 1..MaxDoc

Decisions ==
    {Msg("add_cluster", ProcessorActor(0), <<<<d, c>>>>) : d \in DocIds, c \in DocIds}
        \cup {Msg("add_removed", ProcessorActor(0), <<d>>) : d \in DocIds}

DecisionTarget(msg) ==
    IF msg.op = "add_cluster" THEN msg.arg[1][1] % d_actors ELSE msg.arg[1] % d_actors

DocInit ==
    /\ files = << [n \in 1..MaxDoc |-> Row(n, Ta)] >>
    /\ pc = "resolve"
    /\ alive = DocActors \cup ProcessorActors
    /\ created = DocActors \cup ProcessorActors
    /\ inbox = [a \in Collectors |-> <<>>]
    /\ pending = [c \in Callers |-> 0]
    /\ replies = [c \in Callers |-> <<>>]
    /\ todo = <<>>
    /\ reader = [w \in Readers |-> IdleReader]
    /\ prestats = EmptyDict
    /\ bucketsHash = [i \in BucketShards |-> EmptyDict]
    /\ docsMinHash = [i \in MinHashShards |-> EmptyDict]
    /\ bproc = [i \in BucketShards |-> IdleBucket]
    /\ invQ = <<>>
    /\ proc = [p \in Processors |-> IdleProcessor]
    /\ docs = [i \in DocShards |-> [ids |-> EmptyDict, removed |-> {}]]
    /\ sums = NoSums
    /\ sized = {}
    /\ fworker = [w \in FilterWorkers |-> IdleFilter]
    /\ out = EmptyDict
    /\ metadata = NoMetadata
    /\ shingler = IdleShingler
    /\ launch = IdleLaunch
    /\ sent = NothingSent
    /\ blocklist = IdleBlockList

\* a bucket processor sends one decision to the shard of its doc id
SendDecision ==
    \E msg \in Decisions :
        LET i == DecisionTarget(msg) IN
        /\ pc = "resolve"
        /\ SumOver([j \in DocShards |-> Len(sent[j])], DocShards) < MaxSent
        /\ inbox' = [inbox EXCEPT ![DocActor(i)] = Append(@, msg)]
        /\ pending' = [pending EXCEPT ![msg.from] = @ + 1]
        /\ sent' = [sent EXCEPT ![i] = Append(@, msg)]
        /\ UNCHANGED <<files, pc, alive, created, replies, pre_vars, store_vars,
                       resolve_vars, sums, sized, filter_vars, shingler, launch,
                       blocklist>>

\* every decision is acknowledged: the filter configuration is returned
DecisionsDrained ==
    /\ pc = "resolve"
    /\ \A c \in Callers : pending[c] = 0
    /\ alive' = alive \ ProcessorActors
    /\ pc' = "returned"
    /\ UNCHANGED <<unit_vars, files, created, inbox, pending, replies, pre_vars,
                   store_vars, resolve_vars, sums, sized, filter_vars>>

DocNext ==
    \/ SendDecision
    \/ \E i \in DocShards : DocAddCluster(i)
    \/ \E i \in DocShards : DocAddRemoved(i)
    \/ DecisionsDrained
    \/ StartFilter
    \/ \E w \in FilterWorkers : FilterStart(w)
    \/ \E i \in DocShards : DocFilter(i)
    \/ \E w \in FilterWorkers : FilterDone(w)
    \/ FinishFilter

DocSpec == DocInit /\ [][DocNext]_vars

(***************************************************************************)
(* BlockListTransform on its own: one transform is built from a domain     *)
(* list and annotates one table.  A string is a sequence of symbols: the   *)
(* letters "a" and "b", the dot, and Scheme, which stands for the text     *)
(* "http://".                                                              *)
(***************************************************************************)
Scheme == "http://"

IsLetter(ch) == ch \in {"a", "b"}

annotation_column_name_default == "blocklisted"

source_column_name_default == "title"

\* re.sub("[a-zA-Z]+:/+", "", url): a scheme goes, with the letters that run
\* up to it
strip_scheme(url) ==
    LET matched(i) ==
            \/ url[i] = Scheme
            \/ \E j \in (i + 1)..Len(url) :
                   /\ url[j] = Scheme
                   /\ \A k \in i..(j - 1) : IsLetter(url[k])
        kept == {i \in DOMAIN url : ~matched(i)}
    IN [n \in 1..Cardinality(kept) |->
          url[CHOOSE i \in kept : Cardinality({k \in kept : k < i}) = n - 1]]

\* str.split(sep)
RECURSIVE str_split(_, _)
str_split(text, sep) ==
    IF sep \notin Range(text) THEN <<text>>
    ELSE LET k == CHOOSE j \in DOMAIN text :
                      /\ text[j] = sep
                      /\ \A i \in 1..(j - 1) : text[i] # sep
         IN <<SubSeq(text, 1, k - 1)>> \o str_split(SubSeq(text, k + 1, Len(text)), sep)

\* list.reverse()
list_reverse(l) == [n \in 1..Len(l) |-> l[Len(l) + 1 - n]]

reverse_url(url) == Join(list_reverse(str_split(strip_scheme(url), ".")), ".")

\* urlparse(url).netloc of a URL with neither path, query nor fragment: what
\* follows "scheme://", and nothing when the URL has no "//"
netloc(url) == IF url # <<>> /\ url[1] = Scheme THEN Tail(url) ELSE <<>>

\* pygtrie.StringTrie(separator="."), as the set of the paths that hold a value
build_trie(domain_list) == {str_split(reverse_url(url), ".") : url \in domain_list}

\* trie.shortest_prefix(key) is a _Step: some prefix of the key's path holds a
\* value
shortest_prefix_chars(trie, key) ==
    \E path \in trie :
        LET text == Join(path, ".")
        IN Len(text) <= Len(key) /\ SubSeq(key, 1, Len(text)) = text

shortest_prefix(trie, key) ==
    LET path == str_split(key, ".")
    IN \E n \in 1..Len(path) : SubSeq(path, 1, n) \in trie

check_blocklist_trie(trie, url) ==
    LET url_netloc == netloc(url)
    IN IF shortest_prefix(trie, reverse_url(url_netloc)) THEN url_netloc ELSE <<>>

\* TransformUtils.add_column: every row gains the column, in place
add_column(table, name, content) ==
    [n \in DOMAIN table |->
        [k \in DOMAIN table[n] \cup {name} |->
            IF k = name THEN content[n] ELSE table[n][k]]]

\* what BlockListTransform.transform returns: a list of tables and a metadata
\* dictionary
blocklist_transform(trie, table) ==
    LET block_listed ==
            [n \in DOMAIN table |->
                check_blocklist_trie(trie, table[n][source_column_name_default])]
        block_listed_docs_count ==
            Cardinality({n \in DOMAIN table : block_listed[n] # <<>>})
    IN [tables |-> <<add_column(table, annotation_column_name_default, block_listed)>>,
        metadata |-> [total_docs_count |-> Len(table),
                      block_listed_docs_count |-> block_listed_docs_count]]

MaxUrls == 2

\* host names: a domain, a sub-domain of it, a name that merely ends or
\* starts alike, a deeper sub-domain, the empty host
Hosts == {<<"a">>, <<"b", ".", "a">>, <<"b", "a">>, <<"a", ".", "b">>,
          <<"b", ".", "b", ".", "a">>, <<>>}

Urls == {<<Scheme>> \o h : h \in Hosts} \cup {<<"a">>}

\* lines of a domain file: domains, one written with its scheme, a blank line
DomainLines == {<<"a">>, <<"b", ".", "a">>, <<Scheme, "b">>, <<>>}

UrlTables ==
    UNION {[1..n -> {[title |-> u] : u \in Urls}] : n \in 0..MaxUrls}

\* BlockListTransform.__init__
BlockListCreate ==
    /\ blocklist.st = "new"
    /\ blocklist' = [blocklist EXCEPT !.st = "ready",
                                      !.trie = build_trie(blocklist.domain_list)]
    /\ UNCHANGED <<pipeline_vars, shingler, launch, sent>>

\* BlockListTransform.transform
BlockListTransform ==
    /\ blocklist.st = "ready"
    /\ LET result == blocklist_transform(blocklist.trie, blocklist.table)
       IN blocklist' = [blocklist EXCEPT !.st = "done",
                                         !.tables = result.tables,
                                         !.metadata = result.metadata]
    /\ UNCHANGED <<pipeline_vars, shingler, launch, sent>>

BlockInit ==
    /\ Quiet
    /\ shingler = IdleShingler
    /\ launch = IdleLaunch
    /\ sent = NothingSent
    /\ \E domain_list \in SUBSET DomainLines, table \in UrlTables :
           blocklist = [IdleBlockList EXCEPT !.st = "new",
                                             !.domain_list = domain_list,
                                             !.table = table]

BlockNext ==
    \/ BlockListCreate
    \/ BlockListTransform

BlockSpec == BlockInit /\ [][BlockNext]_vars

(***************************************************************************)
(* Properties.                                                             *)
(***************************************************************************)
DistinctIds(table) ==
    \A m, n \in DOMAIN table : table[m].id = table[n].id => m = n

\* the rows of the table whose id is a key of the map, in order, each with
\* the map's value as cluster
KeptRows(table, unique) ==
    LET kept == SelectSeq(table, LAMBDA r : r.id \in DOMAIN unique)
    IN [n \in 1..Len(kept) |->
          [id |-> kept[n].id, contents |-> kept[n].contents, cluster |-> unique[kept[n].id]]]

\* C1: for a table with distinct doc ids, FdedupFilter.transform returns
\* exactly the rows whose doc id is a key of the union of the filter replies,
\* in their original order, each with the reply value as cluster and its
\* other columns unchanged.
C1_FilterContract ==
    \A f \in DOMAIN out :
        DistinctIds(files[f]) => out[f].table = KeptRows(files[f], out[f].unique)

\* a table of distinct ids was filtered: its first row dropped, a later row
\* kept with a cluster id that is not the row's own id
C1_Witness ==
    \E f \in DOMAIN out :
        /\ DistinctIds(files[f])
        /\ Len(files[f]) >= 2
        /\ Len(out[f].table) = Len(files[f]) - 1
        /\ files[f][1].id \notin DOMAIN out[f].unique
        /\ \E n \in DOMAIN out[f].table : out[f].table[n].cluster # out[f].table[n].id
MessagesTo(a) == Range(inbox[a])

\* every table has been through FdedupPreprocessor.transform, every
\* add_buckets / add_minhashes call is acknowledged, the workers are gone
PreprocessingFinished ==
    /\ DOMAIN prestats = 1..Len(files)
    /\ \A a \in Collectors : \A m \in MessagesTo(a) : m.op \notin {"add_buckets", "add_minhashes"}
    /\ \A w \in Readers : pending[ReaderActor(w)] = 0
    /\ ReaderActors \cap alive = {}

ProcessBucketsIssued ==
    \E i \in BucketShards :
        \/ bproc[i].st # "idle"
        \/ \E m \in MessagesTo(BucketActor(i)) : m.op = "process_buckets"

\* every process_buckets call has returned and wait_for_completion as well
BucketResolutionDrained ==
    /\ \A i \in BucketShards :
          /\ bproc[i].st = "done"
          /\ \A m \in MessagesTo(BucketActor(i)) : m.op # "process_buckets"
    /\ Outstanding = 0
    /\ \A p \in Processors : pending[ProcessorActor(p)] = 0
    /\ \A i \in DocShards : \A m \in MessagesTo(DocActor(i)) :
          m.op \notin {"add_cluster", "add_removed"}
    /\ pc \notin {"start", "preprocess", "register", "process", "drain"}

FilterConfigReturned ==
    \/ pc \in {"returned", "filter", "filtered", "doc_sizes", "done", "raised"}
    \/ \E w \in FilterWorkers : fworker[w].st # "idle"
    \/ \E i \in DocShards : \E m \in MessagesTo(DocActor(i)) : m.op = "filter"

\* C2: the phases are separated by barriers: process_buckets is not issued
\* before preprocessing has finished and its workers are killed, and the
\* filter configuration is not returned (no filter call is made) before every
\* process_buckets and the invoker's wait_for_completion have returned.
C2_PhaseBarriers ==
    /\ ProcessBucketsIssued => PreprocessingFinished
    /\ FilterConfigReturned => BucketResolutionDrained

\* a filter call is waiting at a doc collector after buckets were resolved
C2_Witness ==
    /\ pc = "filter"
    /\ \E i \in DocShards : \E m \in MessagesTo(DocActor(i)) : m.op = "filter"
    /\ \E i \in BucketShards : bproc[i].submitted # {}
    /\ \E i \in DocShards : docs[i].removed # {}

\* C3: senders partition by key mod N: a band key goes to bucket shard
\* key mod b_actors, a minhash entry to minhash shard doc_id mod m_actors, a
\* filter question to doc shard doc_id mod d_actors; no key has records in
\* two shards of a family.
C3_Sharding ==
    /\ \A i \in BucketShards :
          /\ \A m \in MessagesTo(BucketActor(i)) :
                m.op = "add_buckets" => \A e \in Range(m.arg) : e.key % b_actors = i
          /\ \A k \in DOMAIN bucketsHash[i] : k % b_actors = i
    /\ \A i \in MinHashShards :
          /\ \A m \in MessagesTo(MinHashActor(i)) :
                m.op = "add_minhashes" => \A e \in Range(m.arg) : e[1] % m_actors = i
          /\ \A d \in DOMAIN docsMinHash[i] : d % m_actors = i
    /\ \A i \in DocShards :
          /\ \A m \in MessagesTo(DocActor(i)) :
                m.op = "filter" => \A d \in Range(m.arg) : d % d_actors = i
          /\ \A d \in (DOMAIN docs[i].ids) \cup docs[i].removed : d % d_actors = i
    /\ \A i, j \in BucketShards :
          i # j => (DOMAIN bucketsHash[i]) \cap (DOMAIN bucketsHash[j]) = {}
    /\ \A i, j \in MinHashShards :
          i # j => (DOMAIN docsMinHash[i]) \cap (DOMAIN docsMinHash[j]) = {}
    /\ \A i, j \in DocShards :
          i # j => ((DOMAIN docs[i].ids) \cup docs[i].removed)
                      \cap ((DOMAIN docs[j].ids) \cup docs[j].removed) = {}

\* every bucket shard and two minhash shards hold records, and a filter
\* question is on its way to a doc shard
C3_Witness ==
    /\ \A i \in BucketShards : DOMAIN bucketsHash[i] # {}
    /\ Cardinality({i \in MinHashShards : DOMAIN docsMinHash[i] # {}}) >= 2
    /\ \E i \in DocShards : \E m \in MessagesTo(DocActor(i)) : m.op = "filter"

(***************************************************************************)
(* The corpus seen as a whole, and bucket resolution done bucket by bucket *)
(* in ascending key order.                                                 *)
(***************************************************************************)
AllRows == UNION {Range(files[f]) : f \in DOMAIN files}

Signature(r) == generate_minhashes(generate_word_shingles(normalize_string(r.contents)))

Keys(r) == Range(generate_buckets(Signature(r)))

EntryOf(r) == [id |-> r.id, len |-> Len(r.contents), mh |-> Signature(r)]

Drained == pc \in {"drained", "bucket_sizes", "minhash_sizes", "returned", "filter", "filtered",
                  "doc_sizes", "done", "raised"}

Present(d) == \E f \in DOMAIN out : \E n \in DOMAIN out[f].table : out[f].table[n].id = d

InOutput(d, c) ==
    \E f \in DOMAIN out : \E n \in DOMAIN out[f].table :
        out[f].table[n].id = d /\ out[f].table[n].cluster = c

ApplyDecisions(d, res) ==
    [i \in DocShards |->
        add_removed(add_cluster(d[i], SelectSeq(res.clusters, LAMBDA e : e[1] % d_actors = i)),
                    SelectSeq(res.removed, LAMBDA x : x % d_actors = i))]

RECURSIVE ResolveInOrder(_, _)
ResolveInOrder(keys, d) ==
    IF keys = <<>> THEN d
    ELSE LET members == {r \in AllRows : Head(keys) \in Keys(r)}
         IN ResolveInOrder(Tail(keys),
                           ApplyDecisions(d, process_bucket({EntryOf(r) : r \in members})))

LongBucketKeys ==
    {k \in UNION {Keys(r) : r \in AllRows} :
        Cardinality({r \in AllRows : k \in Keys(r)}) >= 2}

\* C4: the final DocCollector state does not depend on the order in which
\* the add_cluster / add_removed messages of bucket processing are delivered:
\* it is the state that resolving the buckets one after the other gives.
C4_OrderIndependent ==
    Drained =>
        docs = ResolveInOrder(SortedSeq(LongBucketKeys),
                              [i \in DocShards |-> [ids |-> EmptyDict, removed |-> {}]])

Similar(r1, r2) ==
    /\ Keys(r1) \cap Keys(r2) # {}
    /\ match_count(Signature(r1), Signature(r2)) >= threshold

RECURSIVE EquivalenceClass(_)
EquivalenceClass(S) ==
    LET more == S \cup {r \in AllRows : \E q \in S : Similar(r, q)}
    IN IF more = S THEN S ELSE EquivalenceClass(more)

Survivors == UNION {DOMAIN docs[i].ids : i \in DocShards}

\* C5: after bucket resolution the cluster id of every surviving doc id is a
\* surviving doc id and the minimum doc id of its near-duplicate class.
C5_ClusterIsMinimum ==
    Drained =>
        \A r \in AllRows :
            r.id \in Survivors =>
                LET c == docs[r.id % d_actors].ids[r.id] IN
                /\ c \in Survivors
                /\ c = MinOf({q.id : q \in EquivalenceClass({r})})

IdenticalRows(r1, r2) == r1.id < r2.id /\ r1.contents = r2.contents

\* no third document falls into a bucket of r1 and r2
Isolated(r1, r2) ==
    \A r3 \in AllRows \ {r1, r2} : Keys(r3) \cap (Keys(r1) \cup Keys(r2)) = {}

WithCluster(table) ==
    [n \in 1..Len(table) |->
        [id |-> table[n].id, contents |-> table[n].contents, cluster |-> table[n].id]]

\* C7: when every bucket is a singleton, the output tables hold exactly the
\* input rows, each with its own doc id as cluster.
C7_UniqueCorpusUnchanged ==
    (pc = "filtered" /\ \A i \in BucketShards : \A k \in DOMAIN bucketsHash[i] :
                            Cardinality(bucketsHash[i][k]) <= 1)
        => \A f \in DOMAIN files : f \in DOMAIN out /\ out[f].table = WithCluster(files[f])

\* C8: a document with empty contents is never minhashed, is in no bucket,
\* and is in the output with its own doc id as cluster.
C8_EmptyDocumentKept ==
    \A r \in AllRows :
        r.contents = <<>> =>
            /\ \A w \in Readers : \A e \in Range(reader[w].minhashes) : e[1] # r.id
            /\ \A i \in MinHashShards : r.id \notin DOMAIN docsMinHash[i]
            /\ \A i \in BucketShards : \A k \in DOMAIN bucketsHash[i] : r.id \notin bucketsHash[i][k]
            /\ pc = "filtered" => InOutput(r.id, r.id)

\* C9: every doc id a bucket processor asks a MinHashCollector for is stored
\* in shard doc_id mod m_actors: when process_buckets is issued every doc id
\* of every bucket has its minhash entry stored, and no MinHashCollector is
\* killed before bucket processing has drained.
C9_MinhashesPresent ==
    /\ \A i \in MinHashShards : \A m \in MessagesTo(MinHashActor(i)) :
          m.op = "get_minhashes" =>
              /\ MinHashActor(i) \in alive
              /\ \A d \in Range(m.arg) : d % m_actors = i /\ d \in DOMAIN docsMinHash[i]
    /\ ProcessBucketsIssued =>
          \A j \in BucketShards : \A k \in DOMAIN bucketsHash[j] : \A d \in bucketsHash[j][k] :
              d \in DOMAIN docsMinHash[d % m_actors]
    /\ (\E a \in MinHashActors : a \in created \ alive) =>
          Outstanding = 0 /\ \A j \in BucketShards : bproc[j].st = "done"
    /\ \A p \in Processors :
          (proc[p].st = "fetch" /\ pending[ProcessorActor(p)] = 0) =>
              {e.id : e \in Range(Flatten(replies[ProcessorActor(p)]))}
                  = Range(proc[p].batch[proc[p].i].ids)

\* a processor has received the signatures of a bucket of three documents
C9_Witness ==
    \E p \in Processors :
        /\ proc[p].st = "fetch"
        /\ pending[ProcessorActor(p)] = 0
        /\ Len(Flatten(replies[ProcessorActor(p)])) = 3

\* C10: bucket and minhash collectors are killed only after bucket
\* processing has drained and their size has been read; nothing is sent to a
\* killed collector, processor or invoker; the doc collectors are created
\* after preprocessing and are alive through the filter stage.
C10_Lifecycle ==
    /\ \A a \in BucketActors \cup MinHashActors :
          a \in created \ alive =>
              /\ Outstanding = 0
              /\ \A j \in BucketShards : bproc[j].st = "done"
              /\ a \in sized
    /\ \A a \in Collectors : a \notin alive => inbox[a] = <<>>
    /\ InvokerActor \notin alive => invQ = <<>>
    /\ \A p \in Processors : ProcessorActor(p) \notin alive => proc[p].st = "idle"
    /\ DocActors \cap created # {} => PreprocessingFinished
    /\ FilterConfigReturned => DocActors \subseteq alive

\* the filter stage runs with the bucket and minhash collectors gone
C10_Witness ==
    /\ pc = "filter"
    /\ (BucketActors \cup MinHashActors) \cap alive = {}
    /\ sized = BucketActors \cup MinHashActors
    /\ DocActors \subseteq alive
    /\ \E i \in DocShards : \E m \in MessagesTo(DocActor(i)) : m.op = "filter"
\* C11: the invoker is registered with every bucket collector, and every
\* registration call has returned, before process_buckets is issued on any
\* bucket collector.
C11_RegisteredBeforeProcessing ==
    ProcessBucketsIssued =>
        /\ InvokerActor \in created
        /\ \A i \in BucketShards :
              /\ bproc[i].submitter
              /\ \A m \in MessagesTo(BucketActor(i)) : m.op # "add_processing_submitter"

\* one bucket collector runs process_buckets while another has not started
C11_Witness ==
    \E i, j \in BucketShards :
        /\ bproc[i].st = "processing"
        /\ bproc[j].st = "idle"
        /\ \E m \in MessagesTo(BucketActor(j)) : m.op = "process_buckets"

\* the band keys and the minhash entry of row r are stored in the collectors
Stored(r) ==
    /\ r.id \in DOMAIN docsMinHash[r.id % m_actors]
    /\ docsMinHash[r.id % m_actors][r.id] = [len |-> Len(r.contents), mh |-> Signature(r)]
    /\ \A k \in Keys(r) :
          k \in DOMAIN bucketsHash[k % b_actors] /\ r.id \in bucketsHash[k % b_actors][k]

\* C12: between two documents a worker holds fewer than REQUEST_LEN bucket
\* entries (it flushes as soon as the buffer reaches REQUEST_LEN, and only
\* then); when the transform of a table has returned, every bucket entry and
\* minhash of the table is stored at its collector and the worker's buffers
\* are empty with no call outstanding.
C12_Flush ==
    /\ \A w \in Readers :
          /\ reader[w].st = "run" => Len(reader[w].buckets) < REQUEST_LEN
          /\ reader[w].st = "flush" => Len(reader[w].buckets) >= REQUEST_LEN
          /\ reader[w].st = "idle" =>
                /\ reader[w].buckets = <<>> /\ reader[w].minhashes = <<>>
                /\ pending[ReaderActor(w)] = 0
    /\ \A f \in DOMAIN prestats :
          \A r \in Range(files[f]) :
              Len(generate_word_shingles(normalize_string(r.contents))) > 0 => Stored(r)

\* a worker has flushed in the middle of a table and a table has returned
C12_Witness ==
    /\ \E w \in Readers :
          /\ reader[w].st = "run"
          /\ reader[w].num_buckets >= REQUEST_LEN
          /\ reader[w].n < Len(files[reader[w].file])
    /\ \E g \in Corpora : Len(g) = 1 /\ files = g
\* the tokens of a text, cut at every occurrence of the delimiter
RECURSIVE Split(_, _)
Split(text, d) ==
    IF \A k \in DOMAIN text : text[k] # d THEN <<text>>
    ELSE LET k == MinOf({j \in DOMAIN text : text[j] = d})
         IN <<SubSeq(text, 1, k - 1)>> \o Split(SubSeq(text, k + 1, Len(text)), d)

ExpectedShingles(text, d, w) ==
    LET tokens == Split(text, d)
        T == Len(tokens)
    IN IF T <= w THEN <<text>>
       ELSE [i \in 1..(T - w + 1) |-> Join(SubSeq(tokens, i, i + w - 1), d)]

\* C13: the generic shingler gives the one-element list [text] for a text of
\* T <= w tokens, and otherwise T - w + 1 shingles, the i-th being tokens
\* i .. i+w-1 joined by the delimiter.
C13_GenericShingler ==
    shingler.last.path = "generic" =>
        shingler.last.shingles
            = ExpectedShingles(shingler.last.text, shingler.d, shingler.w)

\* a text of three tokens shingled with size two
C13_Witness ==
    /\ shingler.last.path = "generic"
    /\ shingler.d = " "
    /\ shingler.w = 2
    /\ shingler.last.shingles = << <<"a", " ", "a">>, <<"a", " ", "a">> >>

\* C20: when the tokenizer raises on a document, the document is shingled by
\* the generic path, and the next document of the worker is shingled with the
\* tokenizer again.
C20_FallbackForOneDocument ==
    /\ shingler.last.raised =>
          shingler.last.shingles
              = word_shingles(shingler.last.text, shingler.d, shingler.w)
    /\ (shingler.configured /\ shingler.n > 0) => shingler.last.path = "tokenizer"
\* C14: the delimiter configured under `delimiters` is the delimiter of the
\* generic shingler of the preprocessing workers.
C14_DelimiterReachesWorker ==
    launch.lpc \in {"workers", "running"} =>
        launch.worker.delimiter = launch.args.delimiters

InvalidConfig ==
    /\ launch.lpc # "off"
    /\ \/ launch.args.num_bucket_actors < 0
       \/ launch.args.num_minhash_actors < 0
       \/ launch.args.worker_options = None

\* C18: a configuration error is reported before any actor is created: with
\* an invalid configuration no actor exists, and no error is raised while
\* actors exist.
C18_ConfigErrorBeforeActors ==
    /\ InvalidConfig => launch.buckets + launch.minhashes + launch.workers = 0
    /\ launch.error # "none" => launch.buckets + launch.minhashes + launch.workers = 0
\* C15: for every table the filter reports result_documents <=
\* source_documents, source_documents being the number of input rows and
\* result_documents the number of rows of the emitted table, and the cluster
\* column has exactly result_documents values.
C15_ResultAtMostSource ==
    \A f \in DOMAIN out :
        LET o == out[f] IN
        /\ o.stats.result_documents <= o.stats.source_documents
        /\ o.stats.source_documents = Len(files[f])
        /\ o.stats.result_documents = Len(o.table)
        /\ Len(o.clusters) = o.stats.result_documents
        /\ Len(SelectSeq(o.mask, LAMBDA b : b)) = o.stats.result_documents
        /\ Len(o.mask) = o.stats.source_documents

\* a table in which a doc id occurs twice lost a row and kept a row
C15_Witness ==
    \E f \in DOMAIN out :
        /\ ~DistinctIds(files[f])
        /\ out[f].stats.result_documents >= 1
        /\ out[f].stats.result_documents < out[f].stats.source_documents
\* the decisions shard i has executed so far
Executed(i) == SubSeq(sent[i], 1, Len(sent[i]) - Len(inbox[DocActor(i)]))

\* C16: once add_removed has recorded a doc id in a shard, the doc id is in
\* the removed set and has no cluster entry, whatever add_cluster arrived
\* before or arrives after, and filter does not return it.
C16_RemovalIsFinal ==
    /\ \A i \in DocShards : \A m \in Range(Executed(i)) :
          m.op = "add_removed" =>
              \A d \in Range(m.arg) :
                  d \in docs[i].removed /\ d \notin DOMAIN docs[i].ids
    /\ \A i \in DocShards : docs[i].removed \cap DOMAIN docs[i].ids = {}
    /\ \A f \in DOMAIN out : \A i \in DocShards :
          /\ docs[i].removed \cap DOMAIN out[f].unique = {}
          /\ \A n \in DOMAIN out[f].table : out[f].table[n].id \notin docs[i].removed

\* a shard removed a doc id and dropped a later keep for it, and the table
\* was filtered
C16_Witness ==
    /\ pc = "filtered"
    /\ \E i \in DocShards :
          /\ Len(Executed(i)) = 2
          /\ Executed(i)[1].op = "add_removed"
          /\ Executed(i)[2].op = "add_cluster"
          /\ Executed(i)[2].arg[1][1] = Executed(i)[1].arg[1]
    /\ 1 \in DOMAIN out

\* ---------------------------------------------------------------------------
\* C17 (as stated): after bucket resolution any two doc ids that have the same
\* cluster id have a match count of their signatures at or above the
\* threshold, also when they met through different buckets or through a
\* common third document.
ClusterOf(d) == docs[d % d_actors].ids[d]

MatchCount(d1, d2) ==
    LET r1 == CHOOSE r \in AllRows : r.id = d1
        r2 == CHOOSE r \in AllRows : r.id = d2
    IN match_count(Signature(r1), Signature(r2))

RECURSIVE Chained(_)
Chained(S) ==
    LET more == S \cup {r.id : r \in {q \in AllRows :
                                       \E d \in S : MatchCount(q.id, d) >= threshold}}
    IN IF more = S THEN S ELSE Chained(more)

LacksColumn(f) == ~validate_columns(files[f], {doc_column, doc_id_column})

SkippedByBoth(f) ==
    /\ \A n \in DOMAIN files[f] :
          doc_id_column \in DOMAIN files[f][n] =>
              /\ \A i \in MinHashShards : files[f][n].id \notin DOMAIN docsMinHash[i]
              /\ \A i \in BucketShards : \A k \in DOMAIN bucketsHash[i] :
                    files[f][n].id \notin bucketsHash[i][k]
    /\ f \in DOMAIN prestats
    /\ f \in DOMAIN out
    /\ out[f].tables = <<>>

WarningRecorded(f) ==
    /\ "warning" \in DOMAIN prestats[f]
    /\ "warning" \in DOMAIN out[f].stats

ProcessedNormally(f) ==
    /\ f \in DOMAIN prestats
    /\ prestats[f].generated_minhashes
         = Cardinality({n \in DOMAIN files[f] :
               Len(generate_word_shingles(normalize_string(files[f][n].contents))) > 0})
    /\ f \in DOMAIN out
    /\ out[f].stats.source_documents = Len(files[f])
    /\ out[f].table = KeptRows(files[f], out[f].unique)

C19_SchemaErrorSkipped ==
    pc = "filtered" =>
        \A f \in DOMAIN files :
            IF LacksColumn(f)
            THEN SkippedByBoth(f) /\ WarningRecorded(f)
            ELSE ProcessedNormally(f)

\* ---------------------------------------------------------------------------
\* C21: with zero input tables the run goes through the three phases and the
\* computation of the execution statistics without raising an error, and the
\* emitted metadata reports zero for every count (buckets, docs, removed
\* docs, minhashes, source and result documents).
StatsOver == pc \in {"done", "raised"}

C21_EmptyCorpusZeros ==
    (files = NoTables /\ StatsOver) =>
        /\ ~metadata.raised
        /\ metadata.returned
        /\ metadata.number_of_buckets = 0
        /\ metadata.number_of_docs = 0
        /\ metadata.number_of_removed_docs = 0
        /\ metadata.number_of_min_hashes = 0
        /\ Get(metadata.stats, "source_documents", 0) = 0
        /\ Get(metadata.stats, "result_documents", 0) = 0

\* ---------------------------------------------------------------------------
\* C22: every collector the coordinator creates is terminated by it, the
\* bucket and minhash collectors at the end of phase 2 and the doc
\* collectors after their sizes have been read, so no collector is alive
\* once the aggregated metadata has been emitted.
C22_NoCollectorLeft ==
    metadata.returned => alive \cap (BucketActors \cup MinHashActors \cup DocActors) = {}

\* ---------------------------------------------------------------------------
\* C27: the statistics report the kept and removed counts summed over the
\* doc shards, the bucket and minhash counts summed over their shards as
\* read before the kill, and as overall hash memory the bucket, minhash,
\* kept-doc and removed-doc memory of every shard, each counted once.
ShardSum(f, S) == SumOver([i \in S |-> f[i]], S)

CountsSummed ==
    /\ metadata.number_of_docs
         = ShardSum([i \in DocShards |-> doc_size(docs[i]).amount], DocShards)
    /\ metadata.number_of_removed_docs
         = ShardSum([i \in DocShards |-> doc_size(docs[i]).removed], DocShards)
    /\ metadata.number_of_buckets
         = ShardSum([i \in BucketShards |-> bucket_size(bucketsHash[i]).amount], BucketShards)
    /\ metadata.number_of_min_hashes
         = ShardSum([i \in MinHashShards |-> minhash_size(docsMinHash[i]).amount],
                    MinHashShards)

MemoryOnce ==
    metadata.overall_hash_memory
      = ShardSum([i \in BucketShards |-> bucket_size(bucketsHash[i]).memory], BucketShards)
        + ShardSum([i \in MinHashShards |-> minhash_size(docsMinHash[i]).memory],
                   MinHashShards)
        + ShardSum([i \in DocShards |-> doc_size(docs[i]).memory], DocShards)
        + ShardSum([i \in DocShards |-> doc_size(docs[i]).removed_memory], DocShards)

C27_ExecutionStats == metadata.returned => CountsSummed /\ MemoryOnce

\* ---------------------------------------------------------------------------
\* C23: a document with a non-empty shingle list gets exactly num_bands band
\* keys, band i from the signature slice [i*r, (i+1)*r), so a doc id is a
\* member of at most num_bands distinct buckets over all bucket shards
\* together, and of no bucket when its shingle list is empty.
BucketsOf(d) ==
    {ik \in UNION {{<<i, k>> : k \in DOMAIN bucketsHash[i]} : i \in BucketShards} :
        d \in bucketsHash[ik[1]][ik[2]]}

BandKeys(mh) ==
    {hash64(PySlice(mh, i * length_band, (i + 1) * length_band)) : i \in 0..(num_bands - 1)}

EmptyShingled == UNION {reader[w].empty : w \in Readers}

Buffered(w) == UNION {Range(reader[w].buckets[j].ids) : j \in DOMAIN reader[w].buckets}

InBucketCalls ==
    UNION {UNION {UNION {Range(m.arg[j].ids) : j \in DOMAIN m.arg} :
                     m \in {x \in MessagesTo(BucketActor(i)) : x.op = "add_buckets"}} :
              i \in BucketShards}

C23_BandKeys ==
    /\ \A r \in AllRows :
          /\ Cardinality(BucketsOf(r.id)) <= num_bands
          /\ r.id \in EmptyShingled =>
                /\ BucketsOf(r.id) = {}
                /\ r.id \notin InBucketCalls
                /\ \A w \in Readers : r.id \notin Buffered(w)
    /\ \A w \in Readers : \A e \in Range(reader[w].minhashes) :
          Len(generate_buckets(e[3])) = num_bands
    /\ 1 \in DOMAIN prestats =>
          \A i \in MinHashShards : \A d \in DOMAIN docsMinHash[i] :
              BucketsOf(d) = {<<k % b_actors, k>> : k \in BandKeys(docsMinHash[i][d].mh)}

\* the table is done: one document is in num_bands buckets, another one,
\* whose shingle list was empty, is in none
C23_Witness ==
    /\ 1 \in DOMAIN prestats
    /\ \E r \in AllRows : Cardinality(BucketsOf(r.id)) = num_bands
    /\ \E r \in AllRows : r.id \in EmptyShingled /\ BucketsOf(r.id) = {}

\* ---------------------------------------------------------------------------
\* C24: within one call of the preprocessor's transform, over any number of
\* intermediate flushes, every generated (band key, doc id) membership and
\* every (doc id, length, signature) entry is submitted to a collector
\* exactly once, none lost when the buffers are cleared and none sent again
\* by a later flush, and the reported generated minhashes is the number of
\* rows of the table whose shingle list is not empty.
EntriesBuffered(w) == {e[1] : e \in Range(reader[w].minhashes)}

\* the places of a doc id in the add_minhashes calls not yet executed
EntrySends(d) ==
    {p \in UNION {UNION {{<<i, j, n>> : n \in DOMAIN inbox[MinHashActor(i)][j].arg} :
                            j \in DOMAIN inbox[MinHashActor(i)]} : i \in MinHashShards} :
        inbox[MinHashActor(p[1])][p[2]].arg[p[3]][1] = d}

EntryStored(d) == \E i \in MinHashShards : d \in DOMAIN docsMinHash[i]

MembersBuffered(w) ==
    UNION {{<<reader[w].buckets[j].key, d>> : d \in Range(reader[w].buckets[j].ids)} :
              j \in DOMAIN reader[w].buckets}

\* the places of a membership in the add_buckets calls not yet executed
MemberSends(kd) ==
    {p \in UNION {UNION {{<<i, j, n>> : n \in DOMAIN inbox[BucketActor(i)][j].arg} :
                            j \in DOMAIN inbox[BucketActor(i)]} : i \in BucketShards} :
        LET e == inbox[BucketActor(p[1])][p[2]].arg[p[3]]
        IN e.key = kd[1] /\ kd[2] \in Range(e.ids)}

MemberStored(kd) ==
    \E i \in BucketShards : kd[1] \in DOMAIN bucketsHash[i] /\ kd[2] \in bucketsHash[i][kd[1]]

\* the signature of a doc id, wherever its entry is
KnownSignatures(w, d) ==
    {e[3] : e \in {x \in Range(reader[w].minhashes) : x[1] = d}}
    \cup {inbox[MinHashActor(p[1])][p[2]].arg[p[3]][3] : p \in EntrySends(d)}
    \cup {docsMinHash[i][d].mh : i \in {j \in MinHashShards : d \in DOMAIN docsMinHash[j]}}

Shingled(w) ==
    {files[reader[w].file][n].id : n \in 1..reader[w].n} \ reader[w].empty

OnceOnly(buffered, sends, stored, st) ==
    /\ Cardinality(sends) + (IF stored THEN 1 ELSE 0) <= 1
    /\ buffered \/ sends # {} \/ stored
    /\ st = "run" => ~(buffered /\ (sends # {} \/ stored))
    /\ st \in {"flush", "final"} => (sends # {} \/ stored)

C24_SubmittedOnce ==
    /\ \A w \in Readers : reader[w].st # "idle" =>
          \A d \in Shingled(w) :
              /\ OnceOnly(d \in EntriesBuffered(w), EntrySends(d), EntryStored(d),
                          reader[w].st)
              /\ \A mh \in KnownSignatures(w, d) : \A k \in BandKeys(mh) :
                    OnceOnly(<<k, d>> \in MembersBuffered(w), MemberSends(<<k, d>>),
                             MemberStored(<<k, d>>), reader[w].st)
    /\ 1 \in DOMAIN prestats =>
          /\ prestats[1].generated_minhashes = Len(files[1]) - Cardinality(EmptyShingled)
          /\ \A r \in AllRows : r.id \notin EmptyShingled => EntryStored(r.id)

\* the table is done after an intermediate flush and a last one that had
\* something left to submit
C24_Witness ==
    /\ 1 \in DOMAIN prestats
    /\ prestats[1].generated_buckets > REQUEST_LEN
    /\ prestats[1].generated_minhashes >= 3
    /\ \A r \in AllRows : EntryStored(r.id)

\* ---------------------------------------------------------------------------
\* C25: request batching bounds the worker's buffers: at the start of every
\* row iteration the bucket buffer holds fewer than REQUEST_LEN distinct
\* band keys, it never holds more than REQUEST_LEN + num_bands - 1, and the
\* number of buffered minhash entries is bounded by a function of
\* REQUEST_LEN and num_bands alone (here the bound of the bucket buffer),
\* whatever the number of rows.
BucketBufferBounded ==
    \A w \in Readers :
        /\ reader[w].st = "run" => Len(reader[w].buckets) < REQUEST_LEN
        /\ Len(reader[w].buckets) <= REQUEST_LEN + num_bands - 1
        /\ Cardinality({reader[w].buckets[j].key : j \in DOMAIN reader[w].buckets})
             = Len(reader[w].buckets)

MinhashBufferBounded ==
    \A w \in Readers : Len(reader[w].minhashes) <= REQUEST_LEN + num_bands - 1

C25_BuffersBounded == BucketBufferBounded /\ MinhashBufferBounded

\* ---------------------------------------------------------------------------
\* C26: when the same surviving doc id occurs in several rows of a table,
\* FdedupFilter.transform keeps the first of those rows and drops the later
\* ones, so the number of kept rows is the number of distinct surviving doc
\* ids of the table.
FirstOccurrence(table, n) == \A m \in 1..(n - 1) : table[m].id # table[n].id

C26_FirstRowOfRepeatedId ==
    \A f \in DOMAIN out :
        LET table == files[f]
            o == out[f]
        IN /\ \A n \in DOMAIN table :
                 o.mask[n] = (table[n].id \in DOMAIN o.unique /\ FirstOccurrence(table, n))
           /\ Len(o.table)
                = Cardinality({table[n].id : n \in DOMAIN table} \cap DOMAIN o.unique)
           /\ \A m, n \in DOMAIN o.table : o.table[m].id = o.table[n].id => m = n

\* a surviving doc id came in the first and in a later row: the first row
\* was kept, the later one dropped
C26_Witness ==
    \E f \in DOMAIN out :
        /\ Len(files[f]) >= 2
        /\ \E n \in 2..Len(files[f]) :
              /\ files[f][n].id = files[f][1].id
              /\ out[f].mask[1]
              /\ ~out[f].mask[n]
        /\ Len(out[f].table) < Len(SelectSeq(files[f], LAMBDA r : r.id \in DOMAIN out[f].unique))

\* the domains the block list names: its lines without their scheme
ListedDomains == {strip_scheme(line) : line \in blocklist.domain_list}

\* the domain, or one of its parent domains, is in the block list
BlockListed(domain) ==
    LET labels == Split(domain, ".")
    IN \E k \in 1..Len(labels) :
           Join(SubSeq(labels, k, Len(labels)), ".") \in ListedDomains

Annotated == {n \in DOMAIN blocklist.tables[1] :
                 blocklist.tables[1][n][annotation_column_name_default] # <<>>}

=============================================================================
